---------------------------- MODULE Spec2Model ----------------------------
(***************************************************************************)
(* A model of the gitea bridge of git-bug: the paginated cursors and the   *)
(* composite iterator (package iterator), the import driver                *)
(* (giteaImporter) and the export driver (giteaExporter), over a local bug *)
(* store and a remote issue tracker.                                       *)
(***************************************************************************)
EXTENDS Integers, Sequences, FiniteSets, TLC

VARIABLES
    remote,      \* the remote tracker: [issues: Seq(issue)], each issue with its notes and label events
    capacity,    \* config.capacity: the page size of every listing request
    iterator,    \* the iterator.Iterator object: [err, issue, note, labelEvent]
    ctxDone,     \* ctx.Err() != nil: the shared context of the pass is cancelled
    faults,      \* number of failures injected so far (fetch, user fetch, write, tag, commit)
    cursorObs,   \* what a caller of a bare cursor has observed since its last Reset
    iterObs,     \* what a caller of the composite iterator has observed
    classifier,  \* the note a caller hands to GetNoteType, and what it got back
    bugs,        \* the local store: Seq([ops: Seq(operation), committed: number of ops committed])
    identities,  \* the local identities: Seq([meta: immutable metadata])
    importer,    \* the import goroutine: [pc, b: the bug of the current issue, out: results sent]
    hist,        \* history of the passes: what the store and the remote were when they started
    creds,       \* the credentials of the store for the target: Seq([login, token])
    exporter,    \* the giteaExporter and its goroutine: [pc, i, k, n, out, identityClient, ...]
    writes       \* the write requests sent to the remote so far

vars == <<remote, capacity, iterator, ctxDone, faults, cursorObs, iterObs, classifier,
          bugs, identities, importer, hist, creds, exporter, writes>>

\* the variables of the exporter
exportVars == <<creds, exporter, writes>>
\* the variables of the drivers, which the harnesses leave alone
driverVars == <<bugs, identities, importer, hist, exportVars>>

----------------------------------------------------------------------------
(* Bounds of the model *)

MaxListing == 3      \* longest remote listing the cursor harness serves
MaxPageSize == 2     \* largest page size the cursor harness uses
MaxExtra == 2        \* advances a harness makes after a cursor has returned false
MaxFaults == 1       \* failures injected in one behaviour of the drivers
MaxResets == 2       \* resets the cursor harness makes
MaxCalls == 5        \* calls the iterator harness makes
MaxIterFaults == 2   \* failures injected in one behaviour of the iterator harness
MaxPasses == 2       \* passes (import or export) run in one behaviour
MaxEnvSteps == 3     \* changes the environment makes to the remote and to the store
MaxIssues == 1       \* issues created on the remote by its users
MaxNotes == 2        \* notes of one issue
MaxEvents == 1       \* label events of one issue
MaxNoteId == 2       \* largest id of a note
MaxEventId == 2      \* largest id of a label event
MaxBugs == 2         \* bugs of the store the user creates or that the store starts with

----------------------------------------------------------------------------
(* Errors *)

NoErr == "nil"
\* the errors a remote request can fail with
RequestErrors == {"request timeout", "server error"}

Min(a, b) == IF a < b THEN a ELSE b

----------------------------------------------------------------------------
(* The remote read API: a paginated listing returns the page and the      *)
(* total number of pages of the listing.                                   *)

TotalPages(items, cap) == (Len(items) + cap - 1) \div cap

PageOf(items, page, cap) ==
    SubSeq(items, (page - 1) * cap + 1, Min(page * cap, Len(items)))

\* the issue of the remote project with the given IID, as a set (empty when there is none)
RemoteIssuesWithIID(iid) == {k \in 1..Len(remote.issues) : remote.issues[k].IID = iid}

ListRepoIssuesAll == remote.issues

ListIssueNotesAll(iid) ==
    IF RemoteIssuesWithIID(iid) = {} THEN <<>>
    ELSE remote.issues[CHOOSE k \in RemoteIssuesWithIID(iid) : TRUE].notes

ListIssueLabelEventsAll(iid) ==
    IF RemoteIssuesWithIID(iid) = {} THEN <<>>
    ELSE remote.issues[CHOOSE k \in RemoteIssuesWithIID(iid) : TRUE].events

----------------------------------------------------------------------------
(* issueIterator: cache = <<>> stands for the nil slice (the code never   *)
(* stores an empty page), index is 0-based as in the code.                 *)

issueReset == [index |-> -1, page |-> 1, lastPage |-> FALSE, cache |-> <<>>]

\* the result of a cursor call: the cursor after it, the returned (bool, error),
\* and the page requested from the remote (0: no request was sent); the parameter
\* fail of a call is the error its remote request fails with (NoErr: it succeeds)
CursorResult(it, more, err, req) == [it |-> it, more |-> more, err |-> err, req |-> req]

issueGetNext(ii, fail) ==
    IF ii.lastPage THEN CursorResult(ii, FALSE, NoErr, 0)
    ELSE IF fail # NoErr THEN CursorResult(issueReset, FALSE, fail, ii.page)
    ELSE LET issues == PageOf(ListRepoIssuesAll, ii.page, capacity)
             i1 == IF TotalPages(ListRepoIssuesAll, capacity) = ii.page
                   THEN [ii EXCEPT !.lastPage = TRUE] ELSE ii
         IN  IF Len(issues) = 0 THEN CursorResult(i1, FALSE, NoErr, ii.page)
             ELSE CursorResult([i1 EXCEPT !.cache = issues, !.index = 0, !.page = ii.page + 1],
                               TRUE, NoErr, ii.page)

issueNext(ii, fail) ==
    IF ii.cache = <<>> THEN issueGetNext(ii, fail)
    ELSE IF ii.index < Len(ii.cache) - 1
         THEN CursorResult([ii EXCEPT !.index = ii.index + 1], TRUE, NoErr, 0)
         ELSE issueGetNext(ii, fail)

\* Value() indexes the cache; out of range it panics
issueHasValue(ii) == ii.index >= 0 /\ ii.index < Len(ii.cache)
issueValue(ii) == ii.cache[ii.index + 1]

----------------------------------------------------------------------------
(* noteIterator *)

noteReset(issue) == [issue |-> issue, index |-> -1, page |-> 1, lastPage |-> FALSE, cache |-> <<>>]

\* a variant of noteGetNext that never marks the last page
noteGetNext_NoLastPage(in, fail) ==
    IF in.lastPage THEN CursorResult(in, FALSE, NoErr, 0)
    ELSE IF fail # NoErr THEN CursorResult(noteReset(-1), FALSE, fail, in.page)
    ELSE LET notes == PageOf(ListIssueNotesAll(in.issue), in.page, capacity)
         IN  IF Len(notes) = 0 THEN CursorResult(in, FALSE, NoErr, in.page)
             ELSE CursorResult([in EXCEPT !.cache = notes, !.index = 0, !.page = in.page + 1],
                               TRUE, NoErr, in.page)

noteGetNext(in, fail) ==
    IF in.lastPage THEN CursorResult(in, FALSE, NoErr, 0)
    ELSE IF fail # NoErr THEN CursorResult(noteReset(-1), FALSE, fail, in.page)
    ELSE LET notes == PageOf(ListIssueNotesAll(in.issue), in.page, capacity)
             i1 == IF TotalPages(ListIssueNotesAll(in.issue), capacity) = in.page
                   THEN [in EXCEPT !.lastPage = TRUE] ELSE in
         IN  IF Len(notes) = 0 THEN CursorResult(i1, FALSE, NoErr, in.page)
             ELSE CursorResult([i1 EXCEPT !.cache = notes, !.index = 0, !.page = in.page + 1],
                               TRUE, NoErr, in.page)

\* a variant of noteNext that starts the cached page over when it is used up
noteNext_SamePage(in, fail) ==
    IF in.cache = <<>> THEN noteGetNext(in, fail)
    ELSE IF in.index < Len(in.cache) - 1
         THEN CursorResult([in EXCEPT !.index = in.index + 1], TRUE, NoErr, 0)
         ELSE CursorResult([in EXCEPT !.index = 0], TRUE, NoErr, 0)

noteNext(in, fail) ==
    IF in.cache = <<>> THEN noteGetNext(in, fail)
    ELSE IF in.index < Len(in.cache) - 1
         THEN CursorResult([in EXCEPT !.index = in.index + 1], TRUE, NoErr, 0)
         ELSE noteGetNext(in, fail)

noteHasValue(in) == in.index >= 0 /\ in.index < Len(in.cache)
noteValue(in) == in.cache[in.index + 1]

----------------------------------------------------------------------------
(* labelEventIterator: the third cursor of the package, of the same shape  *)
(* as the note cursor, over the label events of an issue.                  *)

labelEventReset(issue) == [issue |-> issue, index |-> -1, page |-> 1, lastPage |-> FALSE, cache |-> <<>>]

labelEventGetNext(il, fail) ==
    IF il.lastPage THEN CursorResult(il, FALSE, NoErr, 0)
    ELSE IF fail # NoErr THEN CursorResult(labelEventReset(-1), FALSE, fail, il.page)
    ELSE LET events == PageOf(ListIssueLabelEventsAll(il.issue), il.page, capacity)
             i1 == IF TotalPages(ListIssueLabelEventsAll(il.issue), capacity) = il.page
                   THEN [il EXCEPT !.lastPage = TRUE] ELSE il
         IN  IF Len(events) = 0 THEN CursorResult(i1, FALSE, NoErr, il.page)
             ELSE CursorResult([i1 EXCEPT !.cache = events, !.index = 0, !.page = il.page + 1],
                               TRUE, NoErr, il.page)

labelEventNext(il, fail) ==
    IF il.cache = <<>> THEN labelEventGetNext(il, fail)
    ELSE IF il.index < Len(il.cache) - 1
         THEN CursorResult([il EXCEPT !.index = il.index + 1], TRUE, NoErr, 0)
         ELSE labelEventGetNext(il, fail)

labelEventHasValue(il) == il.index >= 0 /\ il.index < Len(il.cache)
labelEventValue(il) == il.cache[il.index + 1]

----------------------------------------------------------------------------
(* Iterator: the composite of the three cursors with the sticky error      *)

NewIterator ==
    [err |-> NoErr, issue |-> issueReset, note |-> noteReset(-1), labelEvent |-> labelEventReset(-1)]

IteratorError(i) == i.err

\* the result of a composite call: the iterator after it, the returned bool, the page
\* requested from the remote (0: none), and whether the call panicked
IterResult(i, ret, req, panic) == [it |-> i, ret |-> ret, req |-> req, panic |-> panic]

\* a variant of NextIssue that leaves the note and label event cursors as they are
NextIssue_NoReset(i, done, fail) ==
    IF i.err # NoErr THEN IterResult(i, FALSE, 0, FALSE)
    ELSE IF done THEN IterResult(i, FALSE, 0, FALSE)
    ELSE LET r == issueNext(i.issue, fail) IN
         IF r.err # NoErr
         THEN IterResult([i EXCEPT !.err = r.err, !.issue = r.it], FALSE, r.req, FALSE)
         ELSE IF ~issueHasValue(r.it)
              THEN IterResult([i EXCEPT !.issue = r.it], FALSE, r.req, TRUE)
              ELSE IterResult([i EXCEPT !.issue = r.it], r.more, r.req, FALSE)

NextIssue(i, done, fail) ==
    IF i.err # NoErr THEN IterResult(i, FALSE, 0, FALSE)
    ELSE IF done THEN IterResult(i, FALSE, 0, FALSE)
    ELSE LET r == issueNext(i.issue, fail) IN
         IF r.err # NoErr
         THEN IterResult([i EXCEPT !.err = r.err, !.issue = r.it], FALSE, r.req, FALSE)
         ELSE IF ~issueHasValue(r.it)
              \* i.issue.Value() on the nil cache: index out of range
              THEN IterResult([i EXCEPT !.issue = r.it], FALSE, r.req, TRUE)
              ELSE IterResult([i EXCEPT !.issue = r.it,
                                        !.note = noteReset(issueValue(r.it).IID),
                                        !.labelEvent = labelEventReset(issueValue(r.it).IID)],
                              r.more, r.req, FALSE)

\* a variant of NextNote that does not look at the sticky error
NextNote_NoSticky(i, done, fail) ==
    IF done THEN IterResult(i, FALSE, 0, FALSE)
    ELSE LET r == noteNext(i.note, fail) IN
         IF r.err # NoErr
         THEN IterResult([i EXCEPT !.err = r.err, !.note = r.it], FALSE, r.req, FALSE)
         ELSE IterResult([i EXCEPT !.note = r.it], r.more, r.req, FALSE)

NextNote(i, done, fail) ==
    IF i.err # NoErr THEN IterResult(i, FALSE, 0, FALSE)
    ELSE IF done THEN IterResult(i, FALSE, 0, FALSE)
    ELSE LET r == noteNext(i.note, fail) IN
         IF r.err # NoErr
         THEN IterResult([i EXCEPT !.err = r.err, !.note = r.it], FALSE, r.req, FALSE)
         ELSE IterResult([i EXCEPT !.note = r.it], r.more, r.req, FALSE)

\* a variant of NextLabelEvent that does not look at the sticky error
NextLabelEvent_NoSticky(i, done, fail) ==
    IF done THEN IterResult(i, FALSE, 0, FALSE)
    ELSE LET r == labelEventNext(i.labelEvent, fail) IN
         IF r.err # NoErr
         THEN IterResult([i EXCEPT !.err = r.err, !.labelEvent = r.it], FALSE, r.req, FALSE)
         ELSE IterResult([i EXCEPT !.labelEvent = r.it], r.more, r.req, FALSE)

NextLabelEvent(i, done, fail) ==
    IF i.err # NoErr THEN IterResult(i, FALSE, 0, FALSE)
    ELSE IF done THEN IterResult(i, FALSE, 0, FALSE)
    ELSE LET r == labelEventNext(i.labelEvent, fail) IN
         IF r.err # NoErr
         THEN IterResult([i EXCEPT !.err = r.err, !.labelEvent = r.it], FALSE, r.req, FALSE)
         ELSE IterResult([i EXCEPT !.labelEvent = r.it], r.more, r.req, FALSE)

----------------------------------------------------------------------------
(* Texts. A text is a string; Chars gives the characters of every text the *)
(* model uses and Str the text of a sequence of characters, so that the    *)
(* string functions of the code are computed on characters.                *)

Chars(s) ==
    CASE s = "closed" -> <<"c", "l", "o", "s", "e", "d">>
      [] s = "reopened" -> <<"r", "e", "o", "p", "e", "n", "e", "d">>
      [] s = "changed the description" -> <<"c", "h", "a", "n", "g", "e", "d", " ", "t", "h", "e", " ", "d", "e", "s", "c", "r", "i", "p", "t", "i", "o", "n">>
      [] s = "locked this issue" -> <<"l", "o", "c", "k", "e", "d", " ", "t", "h", "i", "s", " ", "i", "s", "s", "u", "e">>
      [] s = "unlocked this issue" -> <<"u", "n", "l", "o", "c", "k", "e", "d", " ", "t", "h", "i", "s", " ", "i", "s", "s", "u", "e">>
      [] s = "changed title from" -> <<"c", "h", "a", "n", "g", "e", "d", " ", "t", "i", "t", "l", "e", " ", "f", "r", "o", "m">>
      [] s = "changed due date to" -> <<"c", "h", "a", "n", "g", "e", "d", " ", "d", "u", "e", " ", "d", "a", "t", "e", " ", "t", "o">>
      [] s = "removed due date" -> <<"r", "e", "m", "o", "v", "e", "d", " ", "d", "u", "e", " ", "d", "a", "t", "e">>
      [] s = "assigned to @" -> <<"a", "s", "s", "i", "g", "n", "e", "d", " ", "t", "o", " ", "@">>
      [] s = "unassigned @" -> <<"u", "n", "a", "s", "s", "i", "g", "n", "e", "d", " ", "@">>
      [] s = "changed milestone to %" -> <<"c", "h", "a", "n", "g", "e", "d", " ", "m", "i", "l", "e", "s", "t", "o", "n", "e", " ", "t", "o", " ", "%">>
      [] s = "removed milestone" -> <<"r", "e", "m", "o", "v", "e", "d", " ", "m", "i", "l", "e", "s", "t", "o", "n", "e">>
      [] s = "mentioned in issue" -> <<"m", "e", "n", "t", "i", "o", "n", "e", "d", " ", "i", "n", " ", "i", "s", "s", "u", "e">>
      [] s = "mentioned in merge request" -> <<"m", "e", "n", "t", "i", "o", "n", "e", "d", " ", "i", "n", " ", "m", "e", "r", "g", "e", " ", "r", "e", "q", "u", "e", "s", "t">>
      [] s = "** to **" -> <<"*", "*", " ", "t", "o", " ", "*", "*">>
      [] s = "{+" -> <<"{", "+">>
      [] s = "+}" -> <<"+", "}">>
      [] s = "**" -> <<"*", "*">>
      [] s = "" -> <<>>
      [] s = "a" -> <<"a">>
      [] s = "b" -> <<"b">>
      [] s = "b " -> <<"b", " ">>
      [] s = "t" -> <<"t">>
      [] s = "changed title from **t** to **b**" -> <<"c", "h", "a", "n", "g", "e", "d", " ", "t", "i", "t", "l", "e", " ", "f", "r", "o", "m", " ", "*", "*", "t", "*", "*", " ", "t", "o", " ", "*", "*", "b", "*", "*">>
      [] s = "assigned to @bob" -> <<"a", "s", "s", "i", "g", "n", "e", "d", " ", "t", "o", " ", "@", "b", "o", "b">>

Texts == {"closed", "reopened", "changed the description", "locked this issue", "unlocked this issue", "changed title from", "changed due date to", "removed due date", "assigned to @", "unassigned @", "changed milestone to %", "removed milestone", "mentioned in issue", "mentioned in merge request", "** to **", "{+", "+}", "**", "", "a", "b", "b ", "t", "changed title from **t** to **b**", "assigned to @bob"}

Str(cs) == CHOOSE s \in Texts : Chars(s) = cs

\* strings.HasPrefix
HasPrefix(cs, prefix) ==
    Len(prefix) <= Len(cs) /\ SubSeq(cs, 1, Len(prefix)) = prefix

\* strings.HasSuffix
HasSuffix(cs, suffix) ==
    Len(suffix) <= Len(cs) /\ SubSeq(cs, Len(cs) - Len(suffix) + 1, Len(cs)) = suffix

\* strings.Index, 1-based; 0 when sep does not occur in cs
Index(cs, sep) ==
    LET at == {k \in 1..(Len(cs) - Len(sep) + 1) : SubSeq(cs, k, k + Len(sep) - 1) = sep}
    IN  IF at = {} THEN 0 ELSE CHOOSE k \in at : \A j \in at : k <= j

\* strings.Split(cs, sep), for a non-empty sep
RECURSIVE Split(_, _)
Split(cs, sep) ==
    LET k == Index(cs, sep)
    IN  IF k = 0 THEN <<cs>>
        ELSE <<SubSeq(cs, 1, k - 1)>> \o Split(SubSeq(cs, k + Len(sep), Len(cs)), sep)

\* strings.Replace(cs, old, "", -1), for a non-empty old
RECURSIVE Remove(_, _)
Remove(cs, old) ==
    LET k == Index(cs, old)
    IN  IF k = 0 THEN cs
        ELSE SubSeq(cs, 1, k - 1) \o Remove(SubSeq(cs, k + Len(old), Len(cs)), old)

\* strings.TrimSuffix
TrimSuffix(cs, suffix) ==
    IF HasSuffix(cs, suffix) THEN SubSeq(cs, 1, Len(cs) - Len(suffix)) ELSE cs

\* text.Cleanup, as far as the texts of the model go: trailing white space is removed
RECURSIVE TrimRightSpace(_)
TrimRightSpace(cs) ==
    IF cs # <<>> /\ cs[Len(cs)] = " " THEN TrimRightSpace(SubSeq(cs, 1, Len(cs) - 1)) ELSE cs

Cleanup(s) == Str(TrimRightSpace(Chars(s)))

----------------------------------------------------------------------------
(* The event classifier *)

NOTE_UNKNOWN == "NOTE_UNKNOWN"
NOTE_COMMENT == "NOTE_COMMENT"
NOTE_TITLE_CHANGED == "NOTE_TITLE_CHANGED"
NOTE_DESCRIPTION_CHANGED == "NOTE_DESCRIPTION_CHANGED"
NOTE_CLOSED == "NOTE_CLOSED"
NOTE_REOPENED == "NOTE_REOPENED"
NOTE_LOCKED == "NOTE_LOCKED"
NOTE_UNLOCKED == "NOTE_UNLOCKED"
NOTE_CHANGED_DUEDATE == "NOTE_CHANGED_DUEDATE"
NOTE_REMOVED_DUEDATE == "NOTE_REMOVED_DUEDATE"
NOTE_ASSIGNED == "NOTE_ASSIGNED"
NOTE_UNASSIGNED == "NOTE_UNASSIGNED"
NOTE_CHANGED_MILESTONE == "NOTE_CHANGED_MILESTONE"
NOTE_REMOVED_MILESTONE == "NOTE_REMOVED_MILESTONE"
NOTE_MENTIONED_IN_ISSUE == "NOTE_MENTIONED_IN_ISSUE"
NOTE_MENTIONED_IN_MERGE_REQUEST == "NOTE_MENTIONED_IN_MERGE_REQUEST"

\* getNewTitle indexes the second piece of the split: there is none (a panic) when
\* the diff does not hold the separator
getNewTitlePanics(diff) == Len(Split(diff, Chars("** to **"))) < 2

getNewTitle(diff) ==
    LET newTitle == Split(diff, Chars("** to **"))[2]
    IN  TrimSuffix(Remove(Remove(newTitle, Chars("{+")), Chars("+}")), Chars("**"))

\* GetNoteType on the characters of the body: [type, body, panic]
NoteTypeResult(type, body, panic) == [type |-> type, body |-> body, panic |-> panic]

GetNoteTypeChars(system, body) ==
    IF ~system THEN NoteTypeResult(NOTE_COMMENT, body, FALSE)
    ELSE IF body = Chars("closed") THEN NoteTypeResult(NOTE_CLOSED, <<>>, FALSE)
    ELSE IF body = Chars("reopened") THEN NoteTypeResult(NOTE_REOPENED, <<>>, FALSE)
    ELSE IF body = Chars("changed the description") THEN NoteTypeResult(NOTE_DESCRIPTION_CHANGED, <<>>, FALSE)
    ELSE IF body = Chars("locked this issue") THEN NoteTypeResult(NOTE_LOCKED, <<>>, FALSE)
    ELSE IF body = Chars("unlocked this issue") THEN NoteTypeResult(NOTE_UNLOCKED, <<>>, FALSE)
    ELSE IF HasPrefix(body, Chars("changed title from"))
         THEN IF getNewTitlePanics(body) THEN NoteTypeResult(NOTE_TITLE_CHANGED, <<>>, TRUE)
              ELSE NoteTypeResult(NOTE_TITLE_CHANGED, getNewTitle(body), FALSE)
    ELSE IF HasPrefix(body, Chars("changed due date to")) THEN NoteTypeResult(NOTE_CHANGED_DUEDATE, <<>>, FALSE)
    ELSE IF body = Chars("removed due date") THEN NoteTypeResult(NOTE_REMOVED_DUEDATE, <<>>, FALSE)
    ELSE IF HasPrefix(body, Chars("assigned to @")) THEN NoteTypeResult(NOTE_ASSIGNED, <<>>, FALSE)
    ELSE IF HasPrefix(body, Chars("unassigned @")) THEN NoteTypeResult(NOTE_UNASSIGNED, <<>>, FALSE)
    ELSE IF HasPrefix(body, Chars("changed milestone to %")) THEN NoteTypeResult(NOTE_CHANGED_MILESTONE, <<>>, FALSE)
    ELSE IF HasPrefix(body, Chars("removed milestone")) THEN NoteTypeResult(NOTE_REMOVED_MILESTONE, <<>>, FALSE)
    ELSE IF HasPrefix(body, Chars("mentioned in issue")) THEN NoteTypeResult(NOTE_MENTIONED_IN_ISSUE, <<>>, FALSE)
    ELSE IF HasPrefix(body, Chars("mentioned in merge request")) THEN NoteTypeResult(NOTE_MENTIONED_IN_MERGE_REQUEST, <<>>, FALSE)
    ELSE NoteTypeResult(NOTE_UNKNOWN, <<>>, FALSE)

\* GetNoteType of a note of the remote, with the body as a text
GetNoteType(n) ==
    LET r == GetNoteTypeChars(n.system, Chars(n.body))
    IN  NoteTypeResult(r.type, IF r.panic THEN "" ELSE Str(r.body), r.panic)

----------------------------------------------------------------------------
(* The cursor harness: a caller that advances and resets the bare issue    *)
(* and note cursors over listings that are served without failure, and     *)
(* records the pages requested and the values yielded since the last Reset *)

ObsInit(resets) ==
    [pages |-> <<>>, yielded |-> <<>>, done |-> FALSE, extra |-> 0,
     extraTrue |-> FALSE, extraReq |-> 0, resets |-> resets]

Observe(o, r, id) ==
    [pages     |-> IF r.req # 0 THEN Append(o.pages, r.req) ELSE o.pages,
     yielded   |-> IF r.more THEN Append(o.yielded, id) ELSE o.yielded,
     done      |-> o.done \/ ~r.more,
     extra     |-> IF o.done THEN o.extra + 1 ELSE 0,
     extraTrue |-> o.extraTrue \/ (o.done /\ r.more),
     extraReq  |-> IF o.done /\ r.req # 0 THEN o.extraReq + 1 ELSE o.extraReq,
     resets    |-> o.resets]

HarnessNote(j) == [ID |-> j, system |-> FALSE, body |-> "a", author |-> 1]

HarnessIssue(k, n) ==
    [IID |-> k, title |-> "t", desc |-> "a", author |-> 1,
     notes |-> [j \in 1..n |-> HarnessNote(j)], events |-> <<>>]

\* the harnesses run no driver
DriversUnused ==
    /\ bugs = <<>>
    /\ identities = <<>>
    /\ importer = <<>>
    /\ hist = <<>>
    /\ creds = <<>>
    /\ exporter = <<>>
    /\ writes = <<>>

InitCursor ==
    /\ \E K \in 0..MaxListing : \E nc \in [1..K -> 0..MaxListing] :
          remote = [issues |-> [k \in 1..K |-> HarnessIssue(k, nc[k])]]
    /\ capacity \in 1..MaxPageSize
    /\ iterator = NewIterator
    /\ ctxDone = FALSE
    /\ faults = 0
    /\ \E which \in {"issue", "note"} : cursorObs = [which |-> which, o |-> ObsInit(0)]
    /\ iterObs = <<>>
    /\ classifier = <<>>
    /\ DriversUnused

CanAdvance(o) == o.extra < MaxExtra /\ Len(o.yielded) <= MaxListing

CursorIssueNext ==
    /\ cursorObs.which = "issue"
    /\ CanAdvance(cursorObs.o)
    /\ LET r == issueNext(iterator.issue, NoErr) IN
         /\ iterator' = [iterator EXCEPT !.issue = r.it]
         /\ cursorObs' = [cursorObs EXCEPT !.o =
                Observe(@, r, IF r.more THEN issueValue(r.it).IID ELSE 0)]
    /\ UNCHANGED <<remote, capacity, ctxDone, faults, iterObs, classifier, driverVars>>

CursorIssueReset ==
    /\ cursorObs.which = "issue"
    /\ cursorObs.o.resets < MaxResets
    /\ iterator' = [iterator EXCEPT !.issue = issueReset]
    /\ cursorObs' = [cursorObs EXCEPT !.o = ObsInit(@.resets + 1)]
    /\ UNCHANGED <<remote, capacity, ctxDone, faults, iterObs, classifier, driverVars>>

CursorNoteNext ==
    /\ cursorObs.which = "note"
    /\ CanAdvance(cursorObs.o)
    /\ LET r == noteNext(iterator.note, NoErr) IN
         /\ iterator' = [iterator EXCEPT !.note = r.it]
         /\ cursorObs' = [cursorObs EXCEPT !.o =
                Observe(@, r, IF r.more THEN noteValue(r.it).ID ELSE 0)]
    /\ UNCHANGED <<remote, capacity, ctxDone, faults, iterObs, classifier, driverVars>>

CursorNoteReset ==
    /\ cursorObs.which = "note"
    /\ cursorObs.o.resets < MaxResets
    /\ \E scope \in 1..MaxListing :
         iterator' = [iterator EXCEPT !.note = noteReset(scope)]
    /\ cursorObs' = [cursorObs EXCEPT !.o = ObsInit(@.resets + 1)]
    /\ UNCHANGED <<remote, capacity, ctxDone, faults, iterObs, classifier, driverVars>>

NextCursor == CursorIssueNext \/ CursorIssueReset \/ CursorNoteNext \/ CursorNoteReset

SpecCursor == InitCursor /\ [][NextCursor]_vars

----------------------------------------------------------------------------
(* The iterator harness: a caller that makes NextIssue, NextNote and       *)
(* NextLabelEvent calls in any order, over listings whose requests may     *)
(* fail, and records what the calls made after the first error returned.   *)

HarnessEvent(j) == [ID |-> j, action |-> "add", label |-> "A", user |-> 1]

InitIterator ==
    /\ \E K \in 1..2 : \E nc \in [1..K -> 0..2] : \E ne \in [1..K -> 0..2] :
          remote = [issues |-> [k \in 1..K |->
                       [HarnessIssue(k, nc[k]) EXCEPT !.events = [j \in 1..ne[k] |-> HarnessEvent(j)]]]]
    /\ capacity \in 1..MaxPageSize
    /\ iterator = NewIterator
    /\ ctxDone = FALSE
    /\ faults = 0
    /\ cursorObs = <<>>
    /\ classifier = <<>>
    /\ iterObs = [calls |-> 0, firstErr |-> NoErr, afterCalls |-> 0,
                  afterTrue |-> FALSE, afterReq |-> FALSE, panicked |-> FALSE]
    /\ DriversUnused

\* the outcomes of a remote request: NoErr, or one of the errors while failures are left
Fails(max) == IF faults < max THEN {NoErr} \cup RequestErrors ELSE {NoErr}

IterObserve(o, r) ==
    [calls      |-> o.calls + 1,
     firstErr   |-> IF o.firstErr = NoErr THEN IteratorError(r.it) ELSE o.firstErr,
     afterCalls |-> IF o.firstErr # NoErr THEN o.afterCalls + 1 ELSE 0,
     afterTrue  |-> o.afterTrue \/ (o.firstErr # NoErr /\ r.ret),
     afterReq   |-> o.afterReq \/ (o.firstErr # NoErr /\ r.req # 0),
     panicked   |-> r.panic]

IterCall(r, fail) ==
    /\ iterator' = r.it
    /\ iterObs' = IterObserve(iterObs, r)
    /\ faults' = IF fail # NoErr /\ r.req # 0 THEN faults + 1 ELSE faults
    /\ UNCHANGED <<remote, capacity, ctxDone, cursorObs, classifier, driverVars>>

CanCall == iterObs.calls < MaxCalls /\ ~iterObs.panicked

IterNextIssue ==
    /\ CanCall
    /\ \E fail \in Fails(MaxIterFaults) : IterCall(NextIssue(iterator, ctxDone, fail), fail)

IterNextNote ==
    /\ CanCall
    /\ \E fail \in Fails(MaxIterFaults) : IterCall(NextNote(iterator, ctxDone, fail), fail)

IterNextLabelEvent ==
    /\ CanCall
    /\ \E fail \in Fails(MaxIterFaults) : IterCall(NextLabelEvent(iterator, ctxDone, fail), fail)

IterCancel ==
    /\ ~ctxDone
    /\ ctxDone' = TRUE
    /\ UNCHANGED <<remote, capacity, iterator, faults, cursorObs, iterObs, classifier, driverVars>>

NextIterator == IterNextIssue \/ IterNextNote \/ IterNextLabelEvent \/ IterCancel

SpecIterator == InitIterator /\ [][NextIterator]_vars

----------------------------------------------------------------------------
(* Configuration, metadata keys and the identifiers written in metadata    *)

target == "gitea"

metaKeyGiteaId == "gitea-id"
metaKeyGiteaUrl == "gitea-url"
metaKeyGiteaLogin == "gitea-login"
metaKeyGiteaBaseUrl == "gitea-base-url"
metaKeyGiteaProject == "gitea-project"
MetaKeyOrigin == "origin"

\* the configuration of the bridge: conf[confKeyGiteaBaseUrl] and conf[confKeyProjectID]
confGiteaBaseUrl == "https://gitea.example/"
confProjectID == "owner/project"

\* the page size ImportAll gives NewIterator
ImportCapacity == 10

\* a metadata map is a function from keys to strings; reading a missing key of a Go
\* map gives the empty string
NoMeta == <<>>
Get(m, k) == IF k \in DOMAIN m THEN m[k] ELSE ""
Has(m, k) == k \in DOMAIN m

\* fmt.Sprintf("%d", id) and strconv.Itoa
parseID(id) == ToString(id)

\* strconv.Atoi, on the identifiers of the model; -1 stands for the error
Atoi(s) ==
    LET ns == {n \in 0..99 : ToString(n) = s}
    IN  IF ns = {} THEN -1 ELSE CHOOSE n \in ns : TRUE

\* the users of the remote and their login (user.Username)
RemoteUsers == {1, 2}
Username(id) == IF id = 1 THEN "alice" ELSE "bob"

----------------------------------------------------------------------------
(* The local store: bugs are operation logs, operations carry metadata     *)

ErrNoMatchingOp == "no matching operation"
ErrMultipleMatchOp == "multiple matching operations"
ErrBugNotExist == "bug doesn't exist"
ErrMultipleMatchBug == "multiple matching bugs"
ErrIdentityNotExist == "identity doesn't exist"
ErrMultipleMatchIdentity == "multiple matching identities"
ErrCommentNotFound == "comment item not found"
ErrLabelAction == "unexpected label event action"
ErrCommit == "commit failed"

BaseOp(kind, author, meta) ==
    [kind |-> kind, author |-> author, meta |-> meta, title |-> "", msg |-> "",
     status |-> "", target |-> 0, added |-> {}, removed |-> {}, newMeta |-> NoMeta]

CreateOp(author, title, msg, meta) == [BaseOp("Create", author, meta) EXCEPT !.title = title, !.msg = msg]
AddCommentOp(author, msg, meta) == [BaseOp("AddComment", author, meta) EXCEPT !.msg = msg]
EditCommentOp(author, tgt, msg, meta) == [BaseOp("EditComment", author, meta) EXCEPT !.target = tgt, !.msg = msg]
SetStatusOp(author, status, meta) == [BaseOp("SetStatus", author, meta) EXCEPT !.status = status]
SetTitleOp(author, title, meta) == [BaseOp("SetTitle", author, meta) EXCEPT !.title = title]
LabelChangeOp(author, added, removed, meta) == [BaseOp("LabelChange", author, meta) EXCEPT !.added = added, !.removed = removed]
SetMetadataOp(author, tgt, newMeta) == [BaseOp("SetMetadata", author, NoMeta) EXCEPT !.target = tgt, !.newMeta = newMeta]

\* m extended with the keys of new that it does not hold (metadata is never overwritten)
MergeMeta(m, new) ==
    [k \in DOMAIN m \cup DOMAIN new |-> IF k \in DOMAIN m THEN m[k] ELSE new[k]]

\* op.GetMetadata / AllMetadata: the metadata the operation was created with, extended
\* by the SetMetadata operations of the log that target it, in log order
RECURSIVE MetaUpTo(_, _, _)
MetaUpTo(ops, id, k) ==
    IF k = 0 THEN ops[id].meta
    ELSE LET m == MetaUpTo(ops, id, k - 1)
         IN  IF ops[k].kind = "SetMetadata" /\ ops[k].target = id
             THEN MergeMeta(m, ops[k].newMeta) ELSE m

OpMeta(b, id) == MetaUpTo(b.ops, id, Len(b.ops))

\* excerpt.CreateMetadata and snapshot.GetCreateMetadata
CreateMetadata(b) == OpMeta(b, 1)

\* BugCache.ResolveOperationWithMetadata: [id, err]
Resolved(id, err) == [id |-> id, err |-> err]

ResolveOperationWithMetadata(b, key, value) ==
    LET matching == {k \in 1..Len(b.ops) : Has(OpMeta(b, k), key) /\ OpMeta(b, k)[key] = value}
    IN  IF matching = {} THEN Resolved(0, ErrNoMatchingOp)
        ELSE IF Cardinality(matching) > 1 THEN Resolved(0, ErrMultipleMatchOp)
        ELSE Resolved(CHOOSE k \in matching : TRUE, NoErr)

\* RepoCache.ResolveIdentityImmutableMetadata: [id, err]
ResolveIdentityImmutableMetadata(ids, key, value) ==
    LET matching == {k \in 1..Len(ids) : Has(ids[k].meta, key) /\ ids[k].meta[key] = value}
    IN  IF matching = {} THEN Resolved(0, ErrIdentityNotExist)
        ELSE IF Cardinality(matching) > 1 THEN Resolved(0, ErrMultipleMatchIdentity)
        ELSE Resolved(CHOOSE k \in matching : TRUE, NoErr)

\* the comments of the snapshot are the Create and AddComment operations, a comment
\* has the id of its operation, its message is that of the last edit that targets it
IsComment(b, id) == id \in 1..Len(b.ops) /\ b.ops[id].kind \in {"Create", "AddComment"}

CommentMessage(b, id) ==
    LET edits == {k \in 1..Len(b.ops) : b.ops[k].kind = "EditComment" /\ b.ops[k].target = id}
    IN  IF edits = {} THEN b.ops[id].msg
        ELSE b.ops[CHOOSE k \in edits : \A j \in edits : j <= k].msg

\* BugCache.NeedCommit and Commit
NeedCommit(b) == b.committed < Len(b.ops)
Commit(b) == [b EXCEPT !.committed = Len(b.ops)]

\* what a new process finds in the store: the committed operations
Reload(bs) == [k \in 1..Len(bs) |-> [ops |-> SubSeq(bs[k].ops, 1, bs[k].committed),
                                      committed |-> bs[k].committed]]

\* appending an operation to bug b of the store S, with the result sent on the channel
Stage(S, b, op) == [S EXCEPT !.bugs[b].ops = Append(@, op)]
Send(S, result) == [S EXCEPT !.out = Append(@, result)]

----------------------------------------------------------------------------
(* giteaImporter. A handler works on S = [bugs, identities, out] and       *)
(* returns the S it leaves with its error; the parameter fail of a handler *)
(* is the error its remote request fails with (NoErr: it succeeds), and    *)
(* faulted tells that the request was made and failed.                     *)

HandlerResult(S, id, err, faulted, panic) ==
    [S |-> S, id |-> id, err |-> err, faulted |-> faulted, panic |-> panic]

\* a variant of ensurePerson that does not look for the identity in the store
ensurePerson_NoLookup(S, id, fail) ==
    IF fail # NoErr THEN HandlerResult(S, 0, fail, TRUE, FALSE)
    ELSE HandlerResult(
            Send([S EXCEPT !.identities = Append(@,
                     [meta |-> (metaKeyGiteaId :> parseID(id)) @@ (metaKeyGiteaLogin :> Username(id))])],
                 "ImportIdentity"),
            Len(S.identities) + 1, NoErr, FALSE, FALSE)

ensurePerson(S, id, fail) ==
    LET i == ResolveIdentityImmutableMetadata(S.identities, metaKeyGiteaId, parseID(id))
    IN  IF i.err = NoErr THEN HandlerResult(S, i.id, NoErr, FALSE, FALSE)
        ELSE IF i.err = ErrMultipleMatchIdentity THEN HandlerResult(S, 0, i.err, FALSE, FALSE)
        \* gi.client.Users.GetUser(id)
        ELSE IF fail # NoErr THEN HandlerResult(S, 0, fail, TRUE, FALSE)
        ELSE HandlerResult(
                Send([S EXCEPT !.identities = Append(@,
                         [meta |-> (metaKeyGiteaId :> parseID(id)) @@ (metaKeyGiteaLogin :> Username(id))])],
                     "ImportIdentity"),
                Len(S.identities) + 1, NoErr, FALSE, FALSE)

\* the matcher ensureIssue gives ResolveBugMatcher
IssueMatcher(createMetadata, issue) ==
    /\ Get(createMetadata, MetaKeyOrigin) = target
    /\ Get(createMetadata, metaKeyGiteaId) = parseID(issue.IID)
    /\ Get(createMetadata, metaKeyGiteaBaseUrl) = confProjectID
    /\ Get(createMetadata, metaKeyGiteaProject) = confGiteaBaseUrl

\* RepoCache.ResolveBugMatcher with that matcher: [id, err]
ResolveBugMatcher(bs, issue) ==
    LET matching == {k \in 1..Len(bs) : IssueMatcher(CreateMetadata(bs[k]), issue)}
    IN  IF matching = {} THEN Resolved(0, ErrBugNotExist)
        ELSE IF Cardinality(matching) > 1 THEN Resolved(0, ErrMultipleMatchBug)
        ELSE Resolved(CHOOSE k \in matching : TRUE, NoErr)

\* the bug NewBugRaw creates (and commits) for an issue
NewBugRaw(author, issue) ==
    [ops |-> <<CreateOp(author, issue.title, Cleanup(issue.desc),
                        (MetaKeyOrigin :> target) @@ (metaKeyGiteaId :> parseID(issue.IID))
                        @@ (metaKeyGiteaUrl :> issue.url) @@ (metaKeyGiteaProject :> confProjectID)
                        @@ (metaKeyGiteaBaseUrl :> confGiteaBaseUrl))>>,
     committed |-> 1]

ensureIssue(S, issue, fail) ==
    LET p == ensurePerson(S, issue.author, fail) IN
    IF p.err # NoErr THEN p
    ELSE LET b == ResolveBugMatcher(p.S.bugs, issue) IN
         IF b.err = NoErr THEN HandlerResult(p.S, b.id, NoErr, FALSE, FALSE)
         ELSE IF b.err # ErrBugNotExist THEN HandlerResult(p.S, 0, b.err, FALSE, FALSE)
         ELSE HandlerResult(
                 Send([p.S EXCEPT !.bugs = Append(@, NewBugRaw(p.id, issue))], "ImportBug"),
                 Len(p.S.bugs) + 1, NoErr, FALSE, FALSE)

GiteaIdMeta(giteaID) == (metaKeyGiteaId :> giteaID)

\* ensureNote for note of the current issue, on bug b
ensureNote(S, b, note, issue, fail) ==
    LET giteaID == parseID(note.ID)
        r == ResolveOperationWithMetadata(S.bugs[b], metaKeyGiteaId, giteaID)
    IN
    IF r.err # NoErr /\ r.err # ErrNoMatchingOp THEN HandlerResult(S, 0, r.err, FALSE, FALSE)
    ELSE
    LET p == ensurePerson(S, note.author, fail) IN
    IF p.err # NoErr THEN p
    ELSE
    LET nt == GetNoteType(note)
        T == p.S
        ok(S1) == HandlerResult(S1, 0, NoErr, FALSE, FALSE)
    IN
    IF nt.panic THEN HandlerResult(T, 0, NoErr, FALSE, TRUE)
    ELSE CASE nt.type = NOTE_CLOSED ->
                IF r.err = NoErr THEN ok(T)
                ELSE ok(Send(Stage(T, b, SetStatusOp(p.id, "closed", GiteaIdMeta(giteaID))),
                             "ImportStatusChange"))
           [] nt.type = NOTE_REOPENED ->
                IF r.err = NoErr THEN ok(T)
                ELSE ok(Send(Stage(T, b, SetStatusOp(p.id, "open", GiteaIdMeta(giteaID))),
                             "ImportStatusChange"))
           [] nt.type = NOTE_DESCRIPTION_CHANGED ->
                \* firstComment := b.Snapshot().Comments[0]
                IF r.err = ErrNoMatchingOp /\ issue.desc # CommentMessage(T.bugs[b], 1)
                THEN ok(Send(Stage(T, b, EditCommentOp(p.id, 1, issue.desc, GiteaIdMeta(giteaID))),
                             "ImportTitleEdition"))
                ELSE ok(T)
           [] nt.type = NOTE_COMMENT ->
                LET cleanText == Cleanup(nt.body) IN
                IF r.err = ErrNoMatchingOp
                THEN ok(Send(Stage(T, b, AddCommentOp(p.id, cleanText, GiteaIdMeta(giteaID))),
                             "ImportComment"))
                \* b.Snapshot().SearchComment(id)
                ELSE IF ~IsComment(T.bugs[b], r.id)
                     THEN HandlerResult(T, 0, ErrCommentNotFound, FALSE, FALSE)
                ELSE IF CommentMessage(T.bugs[b], r.id) # cleanText
                     THEN ok(Send(Stage(T, b, EditCommentOp(p.id, r.id, cleanText, NoMeta)),
                                  "ImportCommentEdition"))
                ELSE ok(T)
           [] nt.type = NOTE_TITLE_CHANGED ->
                IF r.err = NoErr THEN ok(T)
                ELSE ok(Send(Stage(T, b, SetTitleOp(p.id, nt.body, GiteaIdMeta(giteaID))),
                             "ImportTitleEdition"))
           [] OTHER -> ok(T)

ensureLabelEvent(S, b, labelEvent, fail) ==
    LET r == ResolveOperationWithMetadata(S.bugs[b], metaKeyGiteaId, parseID(labelEvent.ID)) IN
    \* if err != cache.ErrNoMatchingOp { return err }: nil when the id is found
    IF r.err # ErrNoMatchingOp THEN HandlerResult(S, 0, r.err, FALSE, FALSE)
    ELSE
    LET p == ensurePerson(S, labelEvent.user, fail) IN
    IF p.err # NoErr THEN p
    ELSE CASE labelEvent.action = "add" ->
                HandlerResult(Stage(p.S, b, LabelChangeOp(p.id, {labelEvent.label}, {},
                                                         GiteaIdMeta(parseID(labelEvent.ID)))),
                              0, NoErr, FALSE, FALSE)
           [] labelEvent.action = "remove" ->
                HandlerResult(Stage(p.S, b, LabelChangeOp(p.id, {}, {labelEvent.label},
                                                         GiteaIdMeta(parseID(labelEvent.ID)))),
                              0, NoErr, FALSE, FALSE)
           [] OTHER -> HandlerResult(p.S, 0, ErrLabelAction, FALSE, FALSE)

----------------------------------------------------------------------------
(* The exporter: its clients and the write requests of export.go           *)

\* the credentials auth.List returns for the target and its base URL, in order;
\* an empty login stands for a credential without the login metadata
Cred(login, token) == [login |-> login, token |-> token]
CredChoices == {<<Cred("alice", 1)>>, <<Cred("bob", 2)>>, <<Cred("alice", 1), Cred("bob", 2)>>}

\* giteaExporter.cacheAllClient: identityClient, from identity to the token of its client
RECURSIVE cacheAllClientFrom(_, _, _, _)
cacheAllClientFrom(ids, cs, k, clients) ==
    IF k > Len(cs) THEN clients
    ELSE IF cs[k].login = "" THEN cacheAllClientFrom(ids, cs, k + 1, clients)
    ELSE LET user == ResolveIdentityImmutableMetadata(ids, metaKeyGiteaLogin, cs[k].login) IN
         IF user.err = ErrIdentityNotExist THEN cacheAllClientFrom(ids, cs, k + 1, clients)
         ELSE IF user.err # NoErr THEN clients
         ELSE IF user.id \in DOMAIN clients THEN cacheAllClientFrom(ids, cs, k + 1, clients)
         \* buildClient(ge.conf[confKeyGiteaBaseUrl], creds[0].(*auth.Token))
         ELSE cacheAllClientFrom(ids, cs, k + 1, clients @@ (user.id :> cs[1].token))

cacheAllClient(ids, cs) == cacheAllClientFrom(ids, cs, 1, <<>>)

\* snapshot.HasAnyActor(ids...)
HasAnyActor(b, ids) == \E k \in 1..Len(b.ops) : b.ops[k].author \in ids

ErrNotFound == "404 Not Found"

\* the issue of the remote with this IID, 0 when there is none
IssueIndex(rem, iid) ==
    IF \E k \in 1..Len(rem.issues) : rem.issues[k].IID = iid
    THEN CHOOSE k \in 1..Len(rem.issues) : rem.issues[k].IID = iid ELSE 0

NoteIndex(issue, id) ==
    IF \E j \in 1..Len(issue.notes) : issue.notes[j].ID = id
    THEN CHOOSE j \in 1..Len(issue.notes) : issue.notes[j].ID = id ELSE 0

NoteIdsOf(rem) == UNION {{rem.issues[k].notes[j].ID : j \in 1..Len(rem.issues[k].notes)} :
                         k \in 1..Len(rem.issues)}

\* the remote gives a new note the next id
FreshNoteId(rem) == IF NoteIdsOf(rem) = {} THEN 1
                    ELSE 1 + CHOOSE m \in NoteIdsOf(rem) : \A n \in NoteIdsOf(rem) : n <= m

\* the result of a write request: the remote after it, the id returned, the error
WriteResult(rem, id, err) == [remote |-> rem, id |-> id, err |-> err]

\* an update of the issue with this IID
UpdateIssue(rem, issueID, field, value, fail) ==
    LET k == IssueIndex(rem, issueID) IN
    IF fail # NoErr THEN WriteResult(rem, 0, fail)
    ELSE IF k = 0 THEN WriteResult(rem, 0, ErrNotFound)
    ELSE WriteResult([rem EXCEPT !.issues[k][field] = value], issueID, NoErr)

createGiteaIssue(rem, client, title, body, fail) ==
    IF fail # NoErr THEN WriteResult(rem, 0, fail)
    ELSE LET iid == Len(rem.issues) + 1 IN
         WriteResult([rem EXCEPT !.issues = Append(@,
                         [IID |-> iid, title |-> title, desc |-> body, author |-> client,
                          url |-> "issue url", state |-> "open", labels |-> {},
                          notes |-> <<>>, events |-> <<>>])],
                     iid, NoErr)

addCommentGiteaIssue(rem, client, issueID, body, fail) ==
    LET k == IssueIndex(rem, issueID) IN
    IF fail # NoErr THEN WriteResult(rem, 0, fail)
    ELSE IF k = 0 THEN WriteResult(rem, 0, ErrNotFound)
    ELSE WriteResult([rem EXCEPT !.issues[k].notes = Append(@,
                         [ID |-> FreshNoteId(rem), system |-> FALSE, body |-> body,
                          author |-> client])],
                     FreshNoteId(rem), NoErr)

editCommentGiteaIssue(rem, client, issueID, noteID, body, fail) ==
    LET k == IssueIndex(rem, issueID)
        j == IF k = 0 THEN 0 ELSE NoteIndex(rem.issues[k], noteID)
    IN  IF fail # NoErr THEN WriteResult(rem, 0, fail)
        ELSE IF j = 0 THEN WriteResult(rem, 0, ErrNotFound)
        ELSE WriteResult([rem EXCEPT !.issues[k].notes[j].body = body], noteID, NoErr)

updateGiteaIssueStatus(rem, client, issueID, status, fail) ==
    UpdateIssue(rem, issueID, "state", status, fail)

updateGiteaIssueBody(rem, client, issueID, body, fail) ==
    UpdateIssue(rem, issueID, "desc", body, fail)

updateGiteaIssueTitle(rem, client, issueID, title, fail) ==
    UpdateIssue(rem, issueID, "title", title, fail)

updateGiteaIssueLabels(rem, client, issueID, labels, fail) ==
    UpdateIssue(rem, issueID, "labels", labels, fail)

\* a write request as the remote receives it, with the pass, the bug and the operation
\* it is sent for
WriteCall(call, client, i, k, issueID, noteID, text, labels, err) ==
    [call |-> call, client |-> client, pass |-> hist.passes, bug |-> i, op |-> k,
     issue |-> issueID, note |-> noteID, text |-> text, labels |-> labels, err |-> err]

\* markOperationAsExported that records no remote id
markOperationAsExported_NoId(b, tgt, giteaID, giteaURL) ==
    [b EXCEPT !.ops = Append(@, SetMetadataOp(0, tgt, (metaKeyGiteaUrl :> giteaURL)))]

\* markOperationAsExported: the SetMetadata operation it appends to the bug
markOperationAsExported(b, tgt, giteaID, giteaURL) ==
    [b EXCEPT !.ops = Append(@, SetMetadataOp(0, tgt,
                          (metaKeyGiteaId :> giteaID) @@ (metaKeyGiteaUrl :> giteaURL)))]

\* exportBug: the metadata it sets on the creation operation of the issue it created;
\* GiteaBaseUrl is the variable of exportBug, which is never assigned
markBugAsExported(b, idString, url) ==
    LET GiteaBaseUrl == "" IN
    [b EXCEPT !.ops = Append(@, SetMetadataOp(0, 1,
                          (metaKeyGiteaId :> idString) @@ (metaKeyGiteaUrl :> url)
                          @@ (metaKeyGiteaBaseUrl :> GiteaBaseUrl)))]

\* a running label set that forgets the removals
UpdateLabelSet_NoRemove(labelSet, op) == labelSet \cup op.added

\* exportBug: the running label set after a LabelChange operation
UpdateLabelSet(labelSet, op) == (labelSet \cup op.added) \ op.removed

\* the labels of the bug after its first k operations
RECURSIVE LabelsUpTo(_, _)
LabelsUpTo(b, k) ==
    IF k = 0 THEN {}
    ELSE IF b.ops[k].kind = "LabelChange"
         THEN (LabelsUpTo(b, k - 1) \cup b.ops[k].added) \ b.ops[k].removed
         ELSE LabelsUpTo(b, k - 1)

\* the status of the bug
RECURSIVE StatusUpTo(_, _)
StatusUpTo(b, k) ==
    IF k = 0 THEN "open"
    ELSE IF b.ops[k].kind = "SetStatus" THEN b.ops[k].status ELSE StatusUpTo(b, k - 1)

----------------------------------------------------------------------------
(* The environment of the drivers: the remote tracker changes and local    *)
(* operations are added between the passes.                                *)

CommentBodies == {"a", "b "}
SystemBodies == {"closed", "reopened", "changed the description",
                 "changed title from **t** to **b**", "assigned to @bob"}
Descriptions == {"a", "b "}
Labels == {"A", "B"}

\* no pass is running
Idle == importer.pc \in {"idle", "done"} /\ exporter.pc \in {"idle", "done"}

\* the ids of the notes and of the label events of the remote
RemoteNoteIds == NoteIdsOf(remote)
RemoteEventIds == UNION {{remote.issues[k].events[j].ID : j \in 1..Len(remote.issues[k].events)} :
                         k \in 1..Len(remote.issues)}

EnvStep(what) == [hist EXCEPT !.envSteps = @ + 1, !.changed = @ \cup {what}]

CanChange == Idle /\ hist.envSteps < MaxEnvSteps

RemoteNewIssue ==
    /\ CanChange
    /\ Len(remote.issues) < MaxIssues
    /\ \E desc \in Descriptions :
         remote' = [remote EXCEPT !.issues = Append(@,
                       [IID |-> Len(remote.issues) + 1, title |-> "t", desc |-> desc, author |-> 1,
                        url |-> "issue url", state |-> "open", labels |-> {},
                        notes |-> <<>>, events |-> <<>>])]
    /\ hist' = EnvStep("issue")
    /\ UNCHANGED <<capacity, iterator, ctxDone, faults, cursorObs, iterObs, classifier, bugs, identities, importer, exportVars>>

RemoteAddNote ==
    /\ CanChange
    /\ \E k \in 1..Len(remote.issues) :
         /\ Len(remote.issues[k].notes) < MaxNotes
         /\ \E id \in (1..MaxNoteId) \ RemoteNoteIds :
            \E n \in {[system |-> FALSE, body |-> body, author |-> author] :
                          body \in CommentBodies, author \in RemoteUsers}
                     \cup {[system |-> TRUE, body |-> body, author |-> 1] : body \in SystemBodies} :
              remote' = [remote EXCEPT !.issues[k].notes = Append(@,
                            [ID |-> id, system |-> n.system, body |-> n.body, author |-> n.author])]
    /\ hist' = EnvStep("note")
    /\ UNCHANGED <<capacity, iterator, ctxDone, faults, cursorObs, iterObs, classifier, bugs, identities, importer, exportVars>>

RemoteEditNote ==
    /\ CanChange
    /\ \E k \in 1..Len(remote.issues) : \E j \in 1..Len(remote.issues[k].notes) :
         /\ ~remote.issues[k].notes[j].system
         /\ \E body \in CommentBodies \ {remote.issues[k].notes[j].body} :
              remote' = [remote EXCEPT !.issues[k].notes[j].body = body]
    /\ hist' = EnvStep("editNote")
    /\ UNCHANGED <<capacity, iterator, ctxDone, faults, cursorObs, iterObs, classifier, bugs, identities, importer, exportVars>>

RemoteAddLabelEvent ==
    /\ CanChange
    /\ \E k \in 1..Len(remote.issues) :
         /\ Len(remote.issues[k].events) < MaxEvents
         /\ \E id \in (1..MaxEventId) \ RemoteEventIds : \E action \in {"add", "remove"} :
            \E label \in Labels :
              remote' = [remote EXCEPT !.issues[k].events = Append(@,
                            [ID |-> id, action |-> action, label |-> label, user |-> 1])]
    /\ hist' = EnvStep("event")
    /\ UNCHANGED <<capacity, iterator, ctxDone, faults, cursorObs, iterObs, classifier, bugs, identities, importer, exportVars>>

----------------------------------------------------------------------------
(* ImportAll: the goroutine, one action for each iteration of its loops    *)

\* the failure injected in a step: none, or the listing request, the user request
\* or the commit of the step fails
DriverFaults ==
    IF faults < MaxFaults THEN {"none", "fetch", "user", "commit", "write", "tag"} ELSE {"none"}
FailAt(f, point) == IF f = point THEN "request timeout" ELSE NoErr

\* the error of a request made with a context that is cancelled
ContextCanceled == "context canceled"

ImportState == [bugs |-> bugs, identities |-> identities, out |-> importer.out]

ImportLeaves(S, pc, b) ==
    /\ bugs' = S.bugs
    /\ identities' = S.identities
    /\ importer' = [pc |-> pc, b |-> b, out |-> S.out]

\* the last pass ended without an error result, a panic or a cancellation
LastPassOk ==
    /\ ~ctxDone
    /\ IF hist.kind = "import"
       THEN importer.pc = "done" /\ \A k \in 1..Len(importer.out) : importer.out[k] # "ImportError"
       ELSE /\ hist.kind = "export"
            /\ exporter.pc = "done"
            /\ \A k \in 1..Len(exporter.out) : exporter.out[k].result # "ExportError"

\* the history when a pass starts; lost counts the remote creations (of an issue or a
\* note) whose tag did not reach the store
StartPass(kind) ==
    [passes |-> hist.passes + 1, envSteps |-> hist.envSteps, changed |-> {},
     kind |-> kind, bugs0 |-> Reload(bugs), writes0 |-> Len(writes), faults0 |-> faults,
     lost |-> hist.lost,
     prev |-> [kind |-> hist.kind, ok |-> LastPassOk, changed |-> hist.changed]]

ImportAll ==
    /\ Idle
    /\ hist.passes < MaxPasses
    /\ iterator' = NewIterator
    /\ ctxDone' = FALSE
    /\ bugs' = Reload(bugs)
    /\ importer' = [pc |-> "issue", b |-> 0, out |-> <<>>]
    /\ hist' = StartPass("import")
    /\ UNCHANGED <<remote, capacity, faults, cursorObs, iterObs, classifier, identities, exportVars>>

ImportIssue ==
    /\ importer.pc = "issue"
    /\ \E f \in DriverFaults :
         \E r \in {NextIssue(iterator, ctxDone, FailAt(f, "fetch"))} :
         /\ iterator' = r.it
         /\ faults' = IF f = "none" THEN faults ELSE faults + 1
         /\ IF r.panic THEN f = "none" /\ ImportLeaves(ImportState, "panic", 0)
            ELSE IF ~r.ret
            THEN /\ f \in {"none", "fetch"}
                 /\ f = "fetch" <=> (r.req # 0 /\ IteratorError(r.it) # NoErr)
                 \* the loop ends: if err := gi.iterator.Error(); err != nil
                 /\ ImportLeaves(IF IteratorError(r.it) # NoErr
                                 THEN Send(ImportState, "ImportError") ELSE ImportState,
                                 "done", 0)
            ELSE \E e \in {ensureIssue(ImportState, issueValue(r.it.issue), FailAt(f, "user"))} :
                 /\ f \in {"none", "user"}
                 /\ f = "user" <=> e.faulted
                 /\ IF e.err # NoErr THEN ImportLeaves(Send(e.S, "ImportError"), "done", 0)
                    ELSE ImportLeaves(e.S, "note", e.id)
    /\ UNCHANGED <<remote, capacity, ctxDone, cursorObs, iterObs, classifier, hist, exportVars>>

ImportNote ==
    /\ importer.pc = "note"
    /\ \E f \in DriverFaults :
         \E r \in {NextNote(iterator, ctxDone, FailAt(f, "fetch"))} :
         /\ iterator' = r.it
         /\ faults' = IF f = "none" THEN faults ELSE faults + 1
         /\ IF ~r.ret
            THEN /\ f \in {"none", "fetch"}
                 /\ f = "fetch" <=> (r.req # 0 /\ IteratorError(r.it) # NoErr)
                 /\ ImportLeaves(ImportState, "label", importer.b)
            ELSE \E e \in {ensureNote(ImportState, importer.b, noteValue(r.it.note),
                                     issueValue(r.it.issue), FailAt(f, "user"))} :
                 /\ f \in {"none", "user"}
                 /\ f = "user" <=> e.faulted
                 /\ IF e.panic THEN ImportLeaves(e.S, "panic", importer.b)
                    ELSE IF e.err # NoErr THEN ImportLeaves(Send(e.S, "ImportError"), "done", 0)
                    ELSE ImportLeaves(e.S, "note", importer.b)
    /\ UNCHANGED <<remote, capacity, ctxDone, cursorObs, iterObs, classifier, hist, exportVars>>

ImportLabelEvent ==
    /\ importer.pc = "label"
    /\ \E f \in DriverFaults :
         \E r \in {NextLabelEvent(iterator, ctxDone, FailAt(f, "fetch"))} :
         /\ iterator' = r.it
         /\ faults' = IF f = "none" THEN faults ELSE faults + 1
         /\ IF ~r.ret
            THEN /\ f \in {"none", "fetch"}
                 /\ f = "fetch" <=> (r.req # 0 /\ IteratorError(r.it) # NoErr)
                 /\ ImportLeaves(ImportState, "commit", importer.b)
            ELSE \E e \in {ensureLabelEvent(ImportState, importer.b,
                                           labelEventValue(r.it.labelEvent), FailAt(f, "user"))} :
                 /\ f \in {"none", "user"}
                 /\ f = "user" <=> e.faulted
                 /\ IF e.err # NoErr THEN ImportLeaves(Send(e.S, "ImportError"), "done", 0)
                    ELSE ImportLeaves(e.S, "label", importer.b)
    /\ UNCHANGED <<remote, capacity, ctxDone, cursorObs, iterObs, classifier, hist, exportVars>>

\* the end of the loop body: if !b.NeedCommit() ... else if err := b.Commit()
ImportCommit ==
    /\ importer.pc = "commit"
    /\ \E f \in DriverFaults :
         /\ f \in {"none", "commit"}
         /\ faults' = IF f = "none" THEN faults ELSE faults + 1
         /\ IF ~NeedCommit(bugs[importer.b])
            THEN f = "none" /\ ImportLeaves(Send(ImportState, "ImportNothing"), "issue", 0)
            ELSE IF f = "commit" THEN ImportLeaves(Send(ImportState, "ImportError"), "done", 0)
            ELSE ImportLeaves([ImportState EXCEPT !.bugs[importer.b] = Commit(@)], "issue", 0)
    /\ UNCHANGED <<remote, capacity, iterator, ctxDone, cursorObs, iterObs, classifier, hist, exportVars>>

\* the caller cancels the context of the running pass
Cancel ==
    /\ ~Idle
    /\ importer.pc # "panic"
    /\ ~ctxDone
    /\ ctxDone' = TRUE
    /\ UNCHANGED <<remote, capacity, iterator, faults, cursorObs, iterObs, classifier, bugs, identities, importer, hist, exportVars>>

----------------------------------------------------------------------------
(* The store changes between the passes: the user adds bugs and operations *)
(* with the git-bug commands, which commit them.                           *)

\* the operations a user can append to bug b
LocalOps(b, author) ==
    LET cur == LabelsUpTo(b, Len(b.ops)) IN
    {AddCommentOp(author, "a", NoMeta), SetTitleOp(author, "b", NoMeta),
     SetStatusOp(author, IF StatusUpTo(b, Len(b.ops)) = "open" THEN "closed" ELSE "open", NoMeta)}
    \cup {EditCommentOp(author, c, "b", NoMeta) :
              c \in {id \in 1..Len(b.ops) : IsComment(b, id) /\ CommentMessage(b, id) # "b"}}
    \cup {LabelChangeOp(author, A, {}, NoMeta) : A \in (SUBSET (Labels \ cur)) \ {{}}}
    \cup {LabelChangeOp(author, {}, R, NoMeta) : R \in (SUBSET cur) \ {{}}}

LocalNewBug ==
    /\ CanChange
    /\ Len(bugs) < MaxBugs
    /\ \E author \in 1..Len(identities) :
         bugs' = Append(Reload(bugs), [ops |-> <<CreateOp(author, "t", "a", NoMeta)>>, committed |-> 1])
    /\ hist' = EnvStep("localBug")
    /\ UNCHANGED <<remote, capacity, iterator, ctxDone, faults, cursorObs, iterObs, classifier, identities, importer, exportVars>>

LocalAppendOp ==
    /\ CanChange
    /\ \E i \in 1..Len(bugs) : \E author \in 1..Len(identities) :
       \E op \in LocalOps(Reload(bugs)[i], author) :
         bugs' = [Reload(bugs) EXCEPT ![i] = Commit([@ EXCEPT !.ops = Append(@, op)])]
    /\ hist' = EnvStep("localOp")
    /\ UNCHANGED <<remote, capacity, iterator, ctxDone, faults, cursorObs, iterObs, classifier, identities, importer, exportVars>>

----------------------------------------------------------------------------
(* ExportAll: the goroutine, one action for the head of exportBug and one  *)
(* for each iteration of its loop over the operations                      *)

ExporterIdle ==
    [pc |-> "idle", i |-> 0, k |-> 0, n |-> 0, out |-> <<>>, identityClient |-> <<>>,
     cachedOperationIDs |-> <<>>, bugGiteaID |-> 0, labelSet |-> {}, bugUpdated |-> FALSE]

\* an ExportResult
Out(result, i, reason) == [result |-> result, bug |-> i, reason |-> reason]

ExportReturns(bs, rem, ws, ex) ==
    /\ bugs' = bs
    /\ remote' = rem
    /\ writes' = ws
    /\ exporter' = ex

\* a variant of OriginAllowed that lets every origin through
OriginAllowed_Any(md) == TRUE

\* exportBug: origin, ok := snapshot.GetCreateMetadata(core.MetaKeyOrigin); ok && origin != target
OriginAllowed(md) == ~(Has(md, MetaKeyOrigin) /\ md[MetaKeyOrigin] # target)

\* Init (cacheAllClient) and the start of the goroutine of ExportAll
ExportAll ==
    /\ Idle
    /\ hist.passes < MaxPasses
    /\ ctxDone' = FALSE
    /\ bugs' = Reload(bugs)
    /\ exporter' = [ExporterIdle EXCEPT !.pc = "bug",
                                        !.identityClient = cacheAllClient(identities, creds)]
    /\ hist' = StartPass("export")
    /\ UNCHANGED <<remote, capacity, iterator, faults, cursorObs, iterObs, classifier, identities, importer,
                   creds, writes>>

\* the next bug of ExportAll, and exportBug up to its loop
ExportBug ==
    /\ exporter.pc = "bug"
    /\ \E f \in DriverFaults :
         LET i == exporter.i + 1 IN
         /\ faults' = IF f = "none" THEN faults ELSE faults + 1
         /\ hist' = IF f \in {"tag", "commit"} THEN [hist EXCEPT !.lost = @ + 1] ELSE hist
         /\ IF i > Len(bugs) \/ ctxDone
            THEN f = "none" /\ ExportReturns(bugs, remote, writes, [exporter EXCEPT !.pc = "done"])
            ELSE
            LET b == bugs[i]
                md == CreateMetadata(b)
                author == b.ops[1].author
                clients == exporter.identityClient
                returns(bs, rem, ws, result, reason) ==
                    ExportReturns(bs, rem, ws,
                        [exporter EXCEPT !.i = i, !.out = Append(@, Out(result, i, reason))])
                nothing(reason) == f = "none" /\ returns(bugs, remote, writes, "ExportNothing", reason)
                error(reason) == f = "none" /\ returns(bugs, remote, writes, "ExportError", reason)
                walk(bs, rem, ws, out, id) ==
                    ExportReturns(bs, rem, ws,
                        [exporter EXCEPT !.pc = "op", !.i = i, !.k = 2, !.n = Len(bs[i].ops),
                                         !.out = out,
                                         !.cachedOperationIDs = (<<i, 1>> :> ToString(id)) @@ @,
                                         !.bugGiteaID = id, !.labelSet = {}, !.bugUpdated = FALSE])
            IN
            IF ~HasAnyActor(b, DOMAIN clients)
            THEN f = "none" /\ ExportReturns(bugs, remote, writes, [exporter EXCEPT !.i = i])
            ELSE IF ~OriginAllowed(md)
            THEN nothing("issue tagged with origin")
            ELSE IF Has(md, metaKeyGiteaId)
            THEN IF Has(md, metaKeyGiteaBaseUrl) /\ md[metaKeyGiteaBaseUrl] # confGiteaBaseUrl
                 THEN nothing("skipping issue imported from another Gitea instance")
                 ELSE IF ~Has(md, metaKeyGiteaProject)
                 THEN error("expected to find gitea project id")
                 ELSE IF md[metaKeyGiteaProject] # confProjectID
                 THEN nothing("skipping issue imported from another repository")
                 ELSE IF Atoi(md[metaKeyGiteaId]) = -1
                 THEN error("unexpected gitea id format")
                 ELSE f = "none" /\ walk(bugs, remote, writes, exporter.out, Atoi(md[metaKeyGiteaId]))
            ELSE IF author \notin DOMAIN clients
            THEN nothing("missing author token")
            ELSE
            LET client == clients[author]
                w == createGiteaIssue(remote, client, b.ops[1].title, b.ops[1].msg, FailAt(f, "write"))
                ws == Append(writes, WriteCall("createIssue", client, i, 1, w.id, 0,
                                               b.ops[1].msg, {}, w.err))
                marked == markBugAsExported(b, ToString(w.id), "issue url")
                out == Append(exporter.out, Out("ExportBug", i, ""))
            IN
            IF w.err # NoErr
            THEN f = "write" /\ returns(bugs, w.remote, ws, "ExportError", "exporting gitea issue")
            ELSE IF f = "tag"
            THEN ExportReturns(bugs, w.remote, ws,
                     [exporter EXCEPT !.i = i, !.out = Append(out,
                          Out("ExportError", i, "marking operation as exported"))])
            ELSE IF f = "commit"
            THEN ExportReturns([bugs EXCEPT ![i] = marked], w.remote, ws,
                     [exporter EXCEPT !.i = i, !.out = Append(out, Out("ExportError", i, "bug commit"))])
            ELSE f = "none" /\ walk([bugs EXCEPT ![i] = Commit(marked)], w.remote, ws, out, w.id)
    /\ UNCHANGED <<capacity, iterator, ctxDone, cursorObs, iterObs, classifier, identities, importer, creds>>

\* what follows a write request of the loop: the result, markOperationAsExported and
\* CommitAsNeeded
Exported(f, w, call, result, id, labelSet, cache) ==
    LET i == exporter.i
        k == exporter.k
        ws == Append(writes, call)
        out == Append(exporter.out, Out(result, i, ""))
        returns(o, reason) ==
            [exporter EXCEPT !.pc = "bug", !.out = Append(o, Out("ExportError", i, reason)),
                             !.labelSet = labelSet, !.cachedOperationIDs = cache]
        marked == markOperationAsExported(bugs[i], k, ToString(id), "")
    IN
    IF w.err # NoErr
    THEN /\ f \in {"none", "write"}
         /\ f = "write" <=> w.err = FailAt("write", "write")
         /\ ExportReturns(bugs, w.remote, ws,
                [exporter EXCEPT !.pc = "bug", !.labelSet = labelSet,
                                 !.out = Append(@, Out("ExportError", i, "write request"))])
    ELSE IF f = "tag"
    THEN ExportReturns(bugs, w.remote, ws, returns(out, "marking operation as exported"))
    ELSE IF f = "commit"
    THEN ExportReturns([bugs EXCEPT ![i] = marked], w.remote, ws, returns(out, "bug commit"))
    ELSE /\ f = "none"
         /\ ExportReturns([bugs EXCEPT ![i] = Commit(marked)], w.remote, ws,
                [exporter EXCEPT !.k = k + 1, !.out = out, !.labelSet = labelSet,
                                 !.cachedOperationIDs = cache, !.bugUpdated = TRUE])

\* one iteration of the loop of exportBug over snapshot.Operations[1:], or its end
ExportOp ==
    /\ exporter.pc = "op"
    /\ \E f \in DriverFaults :
         LET i == exporter.i
             k == exporter.k
             b == bugs[i]
             clients == exporter.identityClient
             cache == exporter.cachedOperationIDs
             id == exporter.bugGiteaID
             labelSet == exporter.labelSet
             continue == f = "none" /\ ExportReturns(bugs, remote, writes, [exporter EXCEPT !.k = k + 1])
             error(reason) ==
                 f = "none" /\ ExportReturns(bugs, remote, writes,
                                  [exporter EXCEPT !.pc = "bug",
                                                   !.out = Append(@, Out("ExportError", i, reason))])
         IN
         /\ faults' = IF f = "none" THEN faults ELSE faults + 1
         /\ hist' = IF f \in {"tag", "commit"} /\ k <= exporter.n /\ b.ops[k].kind = "AddComment"
                    THEN [hist EXCEPT !.lost = @ + 1] ELSE hist
         /\ IF k > exporter.n
            THEN /\ f = "none"
                 /\ ExportReturns(bugs, remote, writes,
                        [exporter EXCEPT !.pc = "bug",
                             !.out = IF exporter.bugUpdated THEN @
                                     ELSE Append(@, Out("ExportNothing", i, "nothing has been exported"))])
            ELSE
            LET op == b.ops[k] IN
            IF op.kind = "SetMetadata" THEN continue
            ELSE IF Has(OpMeta(b, k), metaKeyGiteaId)
            THEN f = "none" /\ ExportReturns(bugs, remote, writes,
                     [exporter EXCEPT !.k = k + 1,
                          !.cachedOperationIDs = (<<i, k>> :> OpMeta(b, k)[metaKeyGiteaId]) @@ @])
            ELSE IF op.author \notin DOMAIN clients THEN continue
            ELSE
            LET client == clients[op.author]
                \* the helper derives its context from the context of the pass
                fail == IF ctxDone THEN ContextCanceled ELSE FailAt(f, "write")
            IN
            CASE op.kind = "AddComment" ->
                   LET w == addCommentGiteaIssue(remote, client, id, op.msg, fail) IN
                   Exported(f, w, WriteCall("addComment", client, i, k, id, w.id, op.msg, {}, w.err),
                            "ExportComment", w.id, labelSet, (<<i, k>> :> ToString(w.id)) @@ cache)
              [] op.kind = "EditComment" /\ op.target = 1 ->
                   LET w == updateGiteaIssueBody(remote, client, id, op.msg, fail) IN
                   Exported(f, w, WriteCall("updateBody", client, i, k, id, 0, op.msg, {}, w.err),
                            "ExportCommentEdition", id, labelSet, cache)
              [] op.kind = "EditComment" /\ op.target # 1 ->
                   IF <<i, op.target>> \notin DOMAIN cache
                   THEN error("unexpected error: comment id not found")
                   ELSE IF Atoi(cache[<<i, op.target>>]) = -1
                   THEN error("unexpected comment id format")
                   ELSE
                   LET commentID == Atoi(cache[<<i, op.target>>])
                       w == editCommentGiteaIssue(remote, client, id, commentID, op.msg, fail)
                   IN
                   Exported(f, w, WriteCall("editComment", client, i, k, id, commentID, op.msg, {}, w.err),
                            "ExportCommentEdition", commentID, labelSet, cache)
              [] op.kind = "SetStatus" ->
                   LET w == updateGiteaIssueStatus(remote, client, id, op.status, fail) IN
                   Exported(f, w, WriteCall("updateStatus", client, i, k, id, 0, op.status, {}, w.err),
                            "ExportStatusChange", id, labelSet, cache)
              [] op.kind = "SetTitle" ->
                   LET w == updateGiteaIssueTitle(remote, client, id, op.title, fail) IN
                   Exported(f, w, WriteCall("updateTitle", client, i, k, id, 0, op.title, {}, w.err),
                            "ExportTitleEdition", id, labelSet, cache)
              [] op.kind = "LabelChange" ->
                   LET labels == UpdateLabelSet(labelSet, op)
                       w == updateGiteaIssueLabels(remote, client, id, labels, fail)
                   IN
                   Exported(f, w, WriteCall("updateLabels", client, i, k, id, 0, "", labels, w.err),
                            "ExportLabelChange", id, labels, cache)
              [] OTHER ->
                   f = "none" /\ ExportReturns(bugs, remote, writes, [exporter EXCEPT !.pc = "panic"])
    /\ UNCHANGED <<capacity, iterator, ctxDone, cursorObs, iterObs, classifier, identities, importer, creds>>

----------------------------------------------------------------------------
(* The specifications of the drivers                                       *)

HistInit ==
    [passes |-> 0, envSteps |-> 0, changed |-> {}, kind |-> "none", bugs0 |-> <<>>,
     writes0 |-> 0, faults0 |-> 0, lost |-> 0,
     prev |-> [kind |-> "none", ok |-> FALSE, changed |-> {}]]

\* no pass has run
DriversIdle ==
    /\ capacity = ImportCapacity
    /\ iterator = NewIterator
    /\ ctxDone = FALSE
    /\ faults = 0
    /\ cursorObs = <<>>
    /\ iterObs = <<>>
    /\ classifier = <<>>
    /\ importer = [pc |-> "idle", b |-> 0, out |-> <<>>]
    /\ exporter = ExporterIdle
    /\ writes = <<>>
    /\ hist = HistInit

\* the identity ensurePerson makes for a user of the remote
ImportedIdentity(id) ==
    [meta |-> (metaKeyGiteaId :> parseID(id)) @@ (metaKeyGiteaLogin :> Username(id))]

\* the import passes start from an empty store and an empty remote, with no identity or
\* with two identities that carry the id of the same user (after a merge of two stores)
InitImport ==
    /\ DriversIdle
    /\ remote = [issues |-> <<>>]
    /\ bugs = <<>>
    /\ identities \in {<<>>} \cup {<<ImportedIdentity(u), ImportedIdentity(u)>> : u \in RemoteUsers}
    /\ creds = <<>>

NextImport ==
    \/ RemoteNewIssue \/ RemoteAddNote \/ RemoteEditNote \/ RemoteAddLabelEvent
    \/ ImportAll \/ ImportIssue \/ ImportNote \/ ImportLabelEvent \/ ImportCommit

SpecImport == InitImport /\ [][NextImport]_vars

\* the issue of the remote the export passes start with
FirstIssue(desc) ==
    [IID |-> 1, title |-> "t", desc |-> desc, author |-> 1, url |-> "issue url",
     state |-> "open", labels |-> {}, notes |-> <<>>, events |-> <<>>]

\* the export passes start after an import of the users of the remote, and of its
\* first issue or of none
InitExport ==
    /\ DriversIdle
    /\ remote = [issues |-> <<FirstIssue("a")>>]
    /\ bugs \in {<<>>, <<NewBugRaw(1, FirstIssue("a"))>>}
    /\ identities = <<ImportedIdentity(1), ImportedIdentity(2)>>
    /\ creds \in CredChoices

NextExport ==
    \/ LocalNewBug \/ LocalAppendOp
    \/ ExportAll \/ ExportBug \/ ExportOp

SpecExport == InitExport /\ [][NextExport]_vars

\* the notes and label events the first issue can have before the first pass
BridgeNotes ==
    {[ID |-> id, system |-> FALSE, body |-> body, author |-> author] :
         id \in 1..MaxNoteId, body \in CommentBodies, author \in RemoteUsers}
    \cup {[ID |-> id, system |-> TRUE, body |-> body, author |-> 1] :
         id \in 1..MaxNoteId, body \in SystemBodies}
BridgeEvents ==
    {[ID |-> id, action |-> action, label |-> label, user |-> 1] :
         id \in 1..MaxEventId, action \in {"add", "remove"}, label \in Labels}

\* import and export passes on one store, from an empty store and a remote with one issue
InitBridge ==
    /\ DriversIdle
    /\ \E desc \in Descriptions :
       \E notes \in {<<>>} \cup {<<n>> : n \in BridgeNotes} :
       \E events \in {<<>>} \cup {<<e>> : e \in BridgeEvents} :
         remote = [issues |-> <<[FirstIssue(desc) EXCEPT !.notes = notes, !.events = events]>>]
    /\ bugs = <<>>
    /\ identities = <<>>
    /\ creds \in CredChoices

NextBridge ==
    \/ RemoteEditNote
    \/ ImportAll \/ ImportIssue \/ ImportNote \/ ImportLabelEvent \/ ImportCommit
    \/ ExportAll \/ ExportBug \/ ExportOp

SpecBridge == InitBridge /\ [][NextBridge]_vars

\* a bug made with the git-bug commands, with two operations after its creation
LocalBug(a1, a2, a3) ==
    [ops |-> <<CreateOp(a1, "t", "a", NoMeta), AddCommentOp(a2, "b", NoMeta),
               SetTitleOp(a3, "b", NoMeta)>>,
     committed |-> 3]

\* the passes that the caller can cancel start with local bugs to export and a remote
\* issue, with a note and a label event, to import
InitCancel ==
    /\ DriversIdle
    /\ remote = [issues |-> <<[FirstIssue("a") EXCEPT
                      !.notes = <<[ID |-> 2, system |-> FALSE, body |-> "b ", author |-> 2]>>,
                      !.events = <<[ID |-> 3, action |-> "add", label |-> "A", user |-> 1]>>]>>]
    /\ bugs \in {<<LocalBug(1, 1, 2)>>, <<LocalBug(1, 2, 1), LocalBug(2, 2, 2)>>}
    /\ identities = <<ImportedIdentity(1), ImportedIdentity(2)>>
    /\ creds \in CredChoices

NextCancel ==
    \/ ImportAll \/ ImportIssue \/ ImportNote \/ ImportLabelEvent \/ ImportCommit
    \/ ExportAll \/ ExportBug \/ ExportOp
    \/ Cancel

SpecCancel == InitCancel /\ [][NextCancel]_vars

\* the passes run to their end: a store with a local bug to export, and a remote project
\* that is empty or has one issue with a note and a label event
InitPasses ==
    /\ DriversIdle
    /\ remote \in {[issues |-> <<>>],
                   [issues |-> <<[FirstIssue("a") EXCEPT
                      !.notes = <<[ID |-> 2, system |-> FALSE, body |-> "b ", author |-> 2]>>,
                      !.events = <<[ID |-> 3, action |-> "add", label |-> "A", user |-> 1]>>]>>]}
    /\ bugs = <<LocalBug(1, 1, 2)>>
    /\ identities = <<ImportedIdentity(1), ImportedIdentity(2)>>
    /\ creds \in CredChoices

NextPasses ==
    \/ ImportAll \/ ImportIssue \/ ImportNote \/ ImportLabelEvent \/ ImportCommit
    \/ ExportAll \/ ExportBug \/ ExportOp

\* a step of the goroutine of the running pass (at most one pass runs at a time)
PassStep ==
    \/ ImportIssue \/ ImportNote \/ ImportLabelEvent \/ ImportCommit
    \/ ExportBug \/ ExportOp

\* the goroutine of a pass is scheduled until it returns, and the consumer keeps reading
\* the channel, so the next step of a running pass is eventually taken; when a pass
\* starts is the caller's choice
PassesFairness == WF_vars(PassStep)

SpecPasses == InitPasses /\ [][NextPasses]_vars /\ PassesFairness

\* what the creation of a bug can carry as metadata: nothing (a local bug), the entries
\* of an import from this target, or entries that name another origin, another instance
\* or another project
MetaOf(origin, id, baseUrl, project) ==
    (IF origin = "" THEN <<>> ELSE (MetaKeyOrigin :> origin))
    @@ (IF id = "" THEN <<>> ELSE (metaKeyGiteaId :> id))
    @@ (IF baseUrl = "" THEN <<>> ELSE (metaKeyGiteaBaseUrl :> baseUrl))
    @@ (IF project = "" THEN <<>> ELSE (metaKeyGiteaProject :> project))

CreationMetas ==
    {MetaOf(origin, id, baseUrl, project) :
        origin \in {"", target, "github"}, id \in {"", "1"},
        baseUrl \in {"", confGiteaBaseUrl, "https://other.example/"},
        project \in {"", confProjectID, "other/project"}}

\* a bug of the store with this creation metadata and one comment added locally
StoredBug(md, a1, a2) ==
    [ops |-> <<CreateOp(a1, "t", "a", md), AddCommentOp(a2, "a", NoMeta)>>, committed |-> 2]

\* the export passes over a store whose first bug may come from anywhere
InitTarget ==
    /\ DriversIdle
    /\ remote = [issues |-> <<FirstIssue("a")>>]
    /\ \E md \in CreationMetas : \E a2 \in 1..2 :
         bugs \in {<<StoredBug(md, 1, a2)>>, <<StoredBug(md, 1, a2), LocalBug(2, 2, 2)>>}
    /\ identities = <<ImportedIdentity(1), ImportedIdentity(2)>>
    /\ creds \in CredChoices

NextTarget == ExportAll \/ ExportBug \/ ExportOp

SpecTarget == InitTarget /\ [][NextTarget]_vars

----------------------------------------------------------------------------
(* The classifier harness: a caller hands one note to GetNoteType          *)

MaxSuffixLen == 2
MaxTitlePieces == 2

\* the sequences of at most n elements of S
RECURSIVE SeqsUpTo(_, _)
SeqsUpTo(S, n) ==
    IF n = 0 THEN {<<>>}
    ELSE LET shorter == SeqsUpTo(S, n - 1)
         IN  shorter \cup {Append(q, x) : q \in shorter, x \in S}

\* the concatenation of a sequence of texts
RECURSIVE Concat(_)
Concat(pieces) == IF pieces = <<>> THEN <<>> ELSE pieces[1] \o Concat(Tail(pieces))

\* a title, or a stretch of the diff of a title: plain text, an insertion, a deletion
TitlePieces == {<<"t">>, <<"{", "+", " ", "c", "+", "}">>, <<"{", "-", " ", "d", "-", "}">>}
TitleDiffs == {Concat(q) : q \in SeqsUpTo(TitlePieces, MaxTitlePieces)}

\* the body of the note of a title change
TitleBody(old, new) ==
    Chars("changed title from") \o <<" ">> \o Chars("**") \o old \o Chars("** to **")
        \o new \o Chars("**")

\* the bodies handed to the classifier: the texts of the model, each followed by a few
\* characters or cut short by one, and the title changes
NoteBodies ==
    {Chars(t) \o q : t \in Texts, q \in SeqsUpTo({" ", "x"}, MaxSuffixLen)}
    \cup {SubSeq(Chars(t), 1, Len(Chars(t)) - 1) : t \in Texts \ {""}}
    \cup {TitleBody(old, new) : old \in TitleDiffs, new \in TitleDiffs}

InitClassifier ==
    /\ remote = [issues |-> <<>>]
    /\ capacity = ImportCapacity
    /\ iterator = NewIterator
    /\ ctxDone = FALSE
    /\ faults = 0
    /\ cursorObs = <<>>
    /\ iterObs = <<>>
    /\ DriversUnused
    /\ \E system \in BOOLEAN : \E body \in NoteBodies :
         classifier = [system |-> system, body |-> body, called |-> FALSE,
                       result |-> NoteTypeResult(NOTE_UNKNOWN, <<>>, FALSE)]

\* noteType, body := GetNoteType(note)
Classify ==
    /\ ~classifier.called
    /\ classifier' = [classifier EXCEPT !.called = TRUE,
                                        !.result = GetNoteTypeChars(classifier.system, classifier.body)]
    /\ UNCHANGED <<remote, capacity, iterator, ctxDone, faults, cursorObs, iterObs, driverVars>>

NextClassifier == Classify

SpecClassifier == InitClassifier /\ [][NextClassifier]_vars

----------------------------------------------------------------------------
(* Properties of the cursors and of the composite iterator *)

\* the listing the cursor of the harness is scoped to, and the ids of its items
CursorItems ==
    IF cursorObs.which = "issue" THEN ListRepoIssuesAll
    ELSE ListIssueNotesAll(iterator.note.issue)

CursorIds ==
    [k \in 1..Len(CursorItems) |->
        IF cursorObs.which = "issue" THEN CursorItems[k].IID ELSE CursorItems[k].ID]

YieldedInOrder ==
    /\ Len(cursorObs.o.yielded) <= Len(CursorItems)
    /\ \A k \in 1..Len(cursorObs.o.yielded) : cursorObs.o.yielded[k] = CursorIds[k]

\* C8 (as amended): for a listing of N items served with page size P, a cursor yields
\* the items once each in listing order and requests the pages 1, 2, ... in turn since
\* its last Reset; when an advance has returned false it has yielded all N items; for
\* N >= 1 it has then made exactly ceil(N/P) requests and every further advance
\* returns false without a request; for N = 0 the first advance makes one request
\* (page 1), and every further advance returns false after requesting page 1 again.
C8_PaginationAmended ==
    LET o == cursorObs.o
        N == Len(CursorItems)
    IN  /\ YieldedInOrder
        /\ \A k \in 1..Len(o.pages) : o.pages[k] = (IF N = 0 THEN 1 ELSE k)
        /\ ~o.extraTrue
        /\ o.done =>
             /\ Len(o.yielded) = N
             /\ N >= 1 => (Len(o.pages) = TotalPages(CursorItems, capacity) /\ o.extraReq = 0)
             /\ N = 0 => Len(o.pages) = 1 + o.extra

\* C8: a cursor reset once, then advanced over the three notes of an issue with page
\* size 2 until it returned false, and advanced once more
C8_Witness ==
    /\ cursorObs.which = "note"
    /\ cursorObs.o.resets >= 1
    /\ cursorObs.o.done
    /\ cursorObs.o.extra >= 1
    /\ Len(CursorItems) = 3
    /\ capacity = 2
    /\ Len(cursorObs.o.pages) = 2

\* C8 (as stated): for a listing of N >= 0 items served with page size P a cursor
\* makes exactly ceil(N/P) requests, yields the N items once each in listing order,
\* every further advance returns false without another request, and after a Reset
\* the requests start again at page 1.
C8_PaginationAsStated ==
    LET o == cursorObs.o
        N == Len(CursorItems)
    IN  /\ YieldedInOrder
        /\ \A k \in 1..Len(o.pages) : o.pages[k] = k
        /\ ~o.extraTrue
        /\ o.extraReq = 0
        /\ o.done => (Len(o.yielded) = N /\ Len(o.pages) = TotalPages(CursorItems, capacity))

\* C10: once a request of any of the three cursors has failed, Error() keeps returning
\* that first error, and every later NextIssue, NextNote and NextLabelEvent call
\* returns false without sending a request.
C10_StickyError ==
    iterObs.firstErr # NoErr =>
        /\ IteratorError(iterator) = iterObs.firstErr
        /\ ~iterObs.afterTrue
        /\ ~iterObs.afterReq

\* C10: an error was recorded and at least two calls were made after it
C10_Witness ==
    /\ iterObs.firstErr # NoErr
    /\ iterObs.afterCalls >= 2
    /\ faults = 1

----------------------------------------------------------------------------
(* Properties of the importer                                              *)

\* the number of operations of kind kind in the bugs bs
RECURSIVE CountOps(_, _, _, _)
CountOps(bs, kind, i, k) ==
    IF i > Len(bs) THEN 0
    ELSE IF k > Len(bs[i].ops) THEN CountOps(bs, kind, i + 1, 1)
    ELSE (IF kind \in {"any", bs[i].ops[k].kind} THEN 1 ELSE 0) + CountOps(bs, kind, i, k + 1)

\* the running pass is an import that follows a successful import, with only the
\* changes allowed made to the remote in between
ReImport(allowed) ==
    /\ hist.kind = "import"
    /\ hist.prev.kind = "import"
    /\ hist.prev.ok
    /\ hist.prev.changed \subseteq allowed

\* C1: running the import pass twice in succession against an unchanged remote
\* creates no new local bug and appends no new local operation in the second pass.
C1_ImportIdempotent ==
    ReImport({}) =>
        /\ Len(bugs) = Len(hist.bugs0)
        /\ CountOps(bugs, "any", 1, 1) = CountOps(hist.bugs0, "any", 1, 1)

\* the tuple of C2 in the creation metadata of a bug
IssueTuple(b) ==
    <<Get(CreateMetadata(b), MetaKeyOrigin), Get(CreateMetadata(b), metaKeyGiteaId),
      Get(CreateMetadata(b), metaKeyGiteaProject), Get(CreateMetadata(b), metaKeyGiteaBaseUrl)>>

\* C2: the store holds at most one bug whose creation metadata carries a given (origin =
\* this remote system, remote issue id, remote project, remote base URL) tuple.
C2_OneBugPerIssue ==
    \A i, j \in 1..Len(bugs) :
        (i # j /\ IssueTuple(bugs[i])[1] = target) => IssueTuple(bugs[i]) # IssueTuple(bugs[j])

\* the remote comments that the bugs bs map to a local comment with another message
ChangedComments(bs) ==
    {n \in RemoteNoteIds :
        \E k \in 1..Len(remote.issues) : \E j \in 1..Len(remote.issues[k].notes) :
        \E i \in 1..Len(bs) : \E id \in 1..Len(bs[i].ops) :
            /\ remote.issues[k].notes[j].ID = n
            /\ ~remote.issues[k].notes[j].system
            /\ bs[i].ops[id].kind = "AddComment"
            /\ Get(OpMeta(bs[i], id), metaKeyGiteaId) = parseID(n)
            /\ CommentMessage(bs[i], id) # Cleanup(remote.issues[k].notes[j].body)}

\* the number of EditComment operations of the bugs bs on comments other than the first
RECURSIVE CommentEdits(_, _, _)
CommentEdits(bs, i, k) ==
    IF i > Len(bs) THEN 0
    ELSE IF k > Len(bs[i].ops) THEN CommentEdits(bs, i + 1, 1)
    ELSE (IF bs[i].ops[k].kind = "EditComment" /\ bs[i].ops[k].target > 1 THEN 1 ELSE 0)
         + CommentEdits(bs, i, k + 1)

\* no note carries the id of an issue
NoIdCollision == \A k \in 1..Len(remote.issues) : remote.issues[k].IID \notin RemoteNoteIds

\* C9: re-importing a comment that is mapped to a local comment appends no EditComment
\* when its cleaned body is unchanged and exactly one EditComment when it changed.
C9_CommentEditDedup ==
    (ReImport({"editNote"}) /\ LastPassOk /\ NoIdCollision) =>
        CommentEdits(bugs, 1, 1) - CommentEdits(hist.bugs0, 1, 1)
            = Cardinality(ChangedComments(hist.bugs0))

----------------------------------------------------------------------------
(* Properties of the exporter                                              *)

\* the running pass is an export that follows a successful import, with nothing changed
\* in between
ExportOfImported ==
    /\ hist.kind = "export"
    /\ hist.prev.kind = "import"
    /\ hist.prev.ok
    /\ hist.prev.changed = {}

\* C3: exporting bugs that were just imported, to the same target, sends no write
\* request to the remote, whatever remote history the import has materialised.
C3_ExportOfImportedWritesNothing ==
    ExportOfImported => Len(writes) = hist.writes0

\* the requests of this kind for operation k of bug i that the remote has carried out
Carried(call, i, k) ==
    {j \in 1..Len(writes) : /\ writes[j].call = call
                            /\ writes[j].bug = i
                            /\ writes[j].op = k
                            /\ writes[j].err = NoErr}

ExportedEarlier ==
    {i \in 1..Len(hist.bugs0) :
        /\ \E j \in Carried("createIssue", i, 1) : j <= hist.writes0
        /\ Has(CreateMetadata(hist.bugs0[i]), metaKeyGiteaId)}

\* C5: an export pass for the same target does not skip a bug whose issue an earlier
\* export pass created, reports no error for it and exports every operation of it whose
\* author has a credential.
C5_ReExportResumes ==
    (hist.kind = "export" /\ exporter.pc = "done" /\ faults = hist.faults0 /\ ~ctxDone) =>
        \A i \in ExportedEarlier :
            /\ \A o \in 1..Len(exporter.out) :
                 exporter.out[o].bug = i =>
                    /\ exporter.out[o].result # "ExportError"
                    /\ exporter.out[o].result = "ExportNothing"
                          => exporter.out[o].reason = "nothing has been exported"
            /\ \A k \in 2..Len(bugs[i].ops) :
                 (bugs[i].ops[k].kind # "SetMetadata"
                  /\ bugs[i].ops[k].author \in DOMAIN exporter.identityClient)
                    => Has(OpMeta(bugs[i], k), metaKeyGiteaId)

\* the label updates sent to the remote
LabelWrites == {j \in 1..Len(writes) : writes[j].call = "updateLabels"}

\* every LabelChange operation of the bug up to the one of request j was exported in the
\* walk of request j
AllLabelChangesExported(j) ==
    \A k \in 2..writes[j].op :
        bugs[writes[j].bug].ops[k].kind = "LabelChange" =>
            \E j2 \in Carried("updateLabels", writes[j].bug, k) : writes[j2].pass = writes[j].pass

\* C6: in a walk that exports all LabelChange operations of a bug, the label list sent
\* with each label update is the set obtained by applying, in log order, the adds and
\* removes of the LabelChange operations up to that one.
C6_LabelListIsRunningSet ==
    \A j \in LabelWrites :
        AllLabelChangesExported(j) =>
            writes[j].labels = LabelsUpTo(bugs[writes[j].bug], writes[j].op)

\* adds {A, B} then remove {A}, both exported in one walk: the second update carries {B}
C6_Witness ==
    \E j \in LabelWrites :
        /\ AllLabelChangesExported(j)
        /\ writes[j].err = NoErr
        /\ bugs[writes[j].bug].ops[writes[j].op].removed = {"A"}
        /\ \E k \in 2..(writes[j].op - 1) : bugs[writes[j].bug].ops[k].added = {"A", "B"}
        /\ writes[j].labels = {"B"}

\* C7: the label list sent for a LabelChange operation is the label set of the bug at
\* that point of its log, also when earlier LabelChange operations are not exported in
\* this pass (already tagged, or their author has no credential).
C7_LabelListIsBugLabels ==
    \A j \in LabelWrites :
        writes[j].labels = LabelsUpTo(bugs[writes[j].bug], writes[j].op)

----------------------------------------------------------------------------
(* Properties of the passes: errors, cancellation                          *)

\* the results of kind result the import pass has sent
ImportResults(result) == {k \in 1..Len(importer.out) : importer.out[k] = result}

\* C11: an empty listing is not an error: with no issue on the remote the import pass
\* ends normally, with no error result and no bug created; an issue with no notes or no
\* label events is imported without error.
C11_EmptyListingIsNoError ==
    /\ (hist.kind = "import" /\ remote.issues = <<>> /\ importer.pc # "issue")
          => (importer.pc = "done" /\ importer.out = <<>> /\ bugs = hist.bugs0)
    /\ (hist.kind = "import" /\ importer.pc \notin {"issue", "note", "label", "commit"}
        /\ faults = hist.faults0
        /\ \A k \in 1..Len(remote.issues) :
               remote.issues[k].notes = <<>> \/ remote.issues[k].events = <<>>)
          => (importer.pc = "done" /\ ImportResults("ImportError") = {})

\* C12: every operation the import created from a remote record carries the metadata entry
\* recording the remote identifier used for deduplication, the EditComment operations
\* appended for a changed remote comment or description included (all operations of the
\* store are created by the import here).
C12_RemoteOpsTagged ==
    \A i \in 1..Len(bugs) : \A k \in 1..Len(bugs[i].ops) :
        Has(OpMeta(bugs[i], k), metaKeyGiteaId)

\* an import pass is running or has ended, and a step of it has failed
ImportErrorOccurred == hist.kind = "import" /\ faults > hist.faults0

\* the operations of the store, committed or not
AllOps(bs) == [i \in 1..Len(bs) |-> bs[i].ops]

\* what is committed of the store
Committed(bs) == [i \in 1..Len(bs) |-> SubSeq(bs[i].ops, 1, bs[i].committed)]

\* an error result is the last result of the pass, which has ended
ErrorResultIsLast ==
    \A k \in 1..Len(importer.out) :
        importer.out[k] = "ImportError" => (k = Len(importer.out) /\ importer.pc = "done")

\* C13: in an import pass an error at any step (issue resolution, note or label event,
\* commit, listing fetch) gives exactly one error result, which is the last result of the
\* pass; no operation is appended after the error occurred, and what was committed earlier
\* in the pass stays committed.
C13_ImportErrorSurfacedOnce ==
    /\ [](hist.kind = "import" => ErrorResultIsLast)
    /\ []((ImportErrorOccurred /\ importer.pc = "done")
            => Cardinality(ImportResults("ImportError")) = 1)
    /\ [][(ImportErrorOccurred /\ importer.pc \notin {"idle", "done"})
            => AllOps(bugs') = AllOps(bugs)]_vars
    /\ [][(hist.kind = "import" /\ importer.pc \notin {"idle", "done"})
            => \A i \in 1..Len(bugs) :
                   /\ i <= Len(bugs')
                   /\ bugs'[i].committed >= bugs[i].committed
                   /\ SubSeq(bugs'[i].ops, 1, bugs[i].committed) = Committed(bugs)[i]]_vars

\* a listing fetch failed after a bug of the pass was committed with more than its creation:
\* the error result is the last result
C13_Witness ==
    /\ ImportErrorOccurred
    /\ importer.pc = "done"
    /\ IteratorError(iterator) # NoErr
    /\ importer.out # <<>>
    /\ importer.out[Len(importer.out)] = "ImportError"
    /\ \E i \in 1..Len(bugs) : i > Len(hist.bugs0) /\ bugs[i].committed > 1

\* the error results the running pass has sent
ErrorsSent ==
    Cardinality(ImportResults("ImportError"))
    + Cardinality({k \in 1..Len(exporter.out) : exporter.out[k].result = "ExportError"})

\* C14: once the context of a pass is cancelled the driver, import and export alike, makes
\* no new remote call (no page fetch, no user fetch, no remote write, the remaining
\* operations of the bug being exported included) and sends no error result (in a pass
\* none of whose steps fails for another reason).
C14_CancelStopsRemoteCalls ==
    [][(ctxDone /\ ~Idle /\ faults = hist.faults0 /\ faults' = faults) =>
          /\ iterator' = iterator
          /\ identities' = identities
          /\ writes' = writes
          /\ ErrorsSent' = ErrorsSent]_vars

----------------------------------------------------------------------------
(* Properties of the classifier *)

\* the grammar of the bodies of the system notes: the text of each rule, whether the text
\* is a prefix or the whole body, and the kind of the rule
Rule(text, prefix, kind) == [text |-> Chars(text), prefix |-> prefix, kind |-> kind]
Grammar ==
    {Rule("closed", FALSE, NOTE_CLOSED), Rule("reopened", FALSE, NOTE_REOPENED),
     Rule("changed the description", FALSE, NOTE_DESCRIPTION_CHANGED),
     Rule("locked this issue", FALSE, NOTE_LOCKED), Rule("unlocked this issue", FALSE, NOTE_UNLOCKED),
     Rule("changed title from", TRUE, NOTE_TITLE_CHANGED),
     Rule("changed due date to", TRUE, NOTE_CHANGED_DUEDATE),
     Rule("removed due date", FALSE, NOTE_REMOVED_DUEDATE),
     Rule("assigned to @", TRUE, NOTE_ASSIGNED), Rule("unassigned @", TRUE, NOTE_UNASSIGNED),
     Rule("changed milestone to %", TRUE, NOTE_CHANGED_MILESTONE),
     Rule("removed milestone", TRUE, NOTE_REMOVED_MILESTONE),
     Rule("mentioned in issue", TRUE, NOTE_MENTIONED_IN_ISSUE),
     Rule("mentioned in merge request", TRUE, NOTE_MENTIONED_IN_MERGE_REQUEST)}

\* the rules of the grammar that match a body
Matching(body) ==
    {r \in Grammar : IF r.prefix THEN HasPrefix(body, r.text) ELSE body = r.text}

\* C15: GetNoteType returns (Comment, body) for a note that is not system-generated; for
\* a system note it returns the kind of the rule of the grammar that matches the body, at
\* most one rule matches any body, and a body that no rule matches gives Unknown.
C15_ClassifierTable ==
    classifier.called =>
        LET r == classifier.result
            m == Matching(classifier.body)
        IN  /\ ~r.panic
            /\ Cardinality(m) <= 1
            /\ ~classifier.system => (r.type = NOTE_COMMENT /\ r.body = classifier.body)
            /\ (classifier.system /\ m = {}) => r.type = NOTE_UNKNOWN
            /\ classifier.system => \A rule \in m : r.type = rule.kind

\* a stretch of a title diff without its insertion and deletion markers
StripMarkers(cs) ==
    Remove(Remove(Remove(Remove(cs, <<"{", "+">>), <<"+", "}">>), <<"{", "-">>), <<"-", "}">>)

\* C16: for a body of the shape 'changed title from **<old>** to **<new>**', where <old>
\* and <new> may hold insertion markers {+...+} and deletion markers {-...-}, the payload
\* of TitleChanged is <new> with all the marker characters removed, the enclosed text kept.
C16_TitleDiffExtraction ==
    (classifier.called /\ classifier.system) =>
        \A old \in TitleDiffs : \A new \in TitleDiffs :
            classifier.body = TitleBody(old, new) =>
                /\ ~classifier.result.panic
                /\ classifier.result.type = NOTE_TITLE_CHANGED
                /\ classifier.result.body = StripMarkers(new)

----------------------------------------------------------------------------
(* Properties of the identities *)

\* the identities of the store tagged with the id of a user of the remote
TaggedWith(ids, u) ==
    {k \in 1..Len(ids) : Has(ids[k].meta, metaKeyGiteaId) /\ ids[k].meta[metaKeyGiteaId] = parseID(u)}

\* a step that starts in pc and has ensurePerson called for user u, who is ambiguous in the
\* store, sends an error as its last result and creates nothing
AmbiguousIsError(u) ==
    Cardinality(TaggedWith(identities, u)) > 1 =>
        /\ importer'.pc = "done"
        /\ importer'.out # <<>>
        /\ importer'.out[Len(importer'.out)] = "ImportError"
        /\ identities' = identities
        /\ AllOps(bugs') = AllOps(bugs)

\* C17: over the import passes a new identity tagged with a remote user id is created
\* only when the store has none with that id, so that at most one is ever created for a
\* user; when two identities of the store carry the id, ensurePerson returns an error
\* (for the author of a new issue and for the author of a note) and nothing is created.
C17_OneIdentityPerRemoteUser ==
    /\ [][\A u \in RemoteUsers :
            Cardinality(TaggedWith(identities', u)) > Cardinality(TaggedWith(identities, u))
                => (TaggedWith(identities, u) = {} /\ Cardinality(TaggedWith(identities', u)) = 1)]_vars
    /\ [][(importer.pc = "note" /\ importer'.pc \notin {"note", "label"} /\ ~ctxDone
           /\ noteHasValue(iterator'.note))
            => AmbiguousIsError(noteValue(iterator'.note).author)]_vars
    /\ [][(importer.pc = "issue" /\ importer'.pc \in {"note", "done"}
           /\ IteratorError(iterator') = NoErr /\ issueHasValue(iterator'.issue)
           /\ iterator'.issue # iterator.issue)
            => AmbiguousIsError(issueValue(iterator'.issue).author)]_vars

\* a pass made an identity for one user and ended with the error for a note of the user
\* whose id two identities carry
C17_Witness ==
    /\ hist.kind = "import"
    /\ importer.pc = "done"
    /\ faults = 0
    /\ Cardinality(TaggedWith(identities, 1)) = 1
    /\ Cardinality(TaggedWith(identities, 2)) = 2
    /\ \E k \in 1..Len(importer.out) : importer.out[k] = "ImportIdentity"
    /\ importer.out[Len(importer.out)] = "ImportError"
    /\ iterator.note.index >= 0

----------------------------------------------------------------------------
(* Properties of the export pass: errors and credentials *)

\* the error results the export pass has sent
ExportErrors == {k \in 1..Len(exporter.out) : exporter.out[k].result = "ExportError"}

\* C18: in an export pass the first error is sticky: once an error result is sent, no
\* remote write is attempted for any later bug and no second error result is sent.
C18_ExportErrorSticky ==
    [][(hist.kind = "export" /\ ~Idle /\ ExportErrors # {})
         => (writes' = writes /\ ExportErrors' = ExportErrors)]_vars

\* the tokens of the credentials of the store that belong to an identity
TokensOf(identity) ==
    {creds[c].token : c \in {c \in 1..Len(creds) : creds[c].login = Get(identities[identity].meta, metaKeyGiteaLogin)}}

\* C19: every remote write of the export is made with the credential of the author of the
\* operation being exported (of the creation operation for the creation of the issue).
C19_WriteWithAuthorCredential ==
    \A j \in 1..Len(writes) :
        writes[j].client \in TokensOf(bugs[writes[j].bug].ops[writes[j].op].author)

\* C20: an operation whose author has no cached credential is skipped alone: it causes no
\* remote write and no error result, and the later operations of the bug whose author has
\* a credential are exported in the same pass (seen on the first export pass of a run in
\* which no request, tagging or commit fails).
C20_SkipWithoutCredential ==
    (hist.kind = "export" /\ hist.passes = 1 /\ hist.changed = {} /\ faults = 0 /\ ~ctxDone) =>
        /\ ExportErrors = {}
        /\ \A j \in 1..Len(writes) :
               bugs[writes[j].bug].ops[writes[j].op].author \in DOMAIN exporter.identityClient
        /\ exporter.pc = "done" =>
               \A i \in 1..Len(bugs) : \A k \in 2..Len(bugs[i].ops) :
                   (/\ Has(CreateMetadata(bugs[i]), metaKeyGiteaId)
                    /\ bugs[i].ops[k].kind # "SetMetadata"
                    /\ bugs[i].ops[k].author \in DOMAIN exporter.identityClient)
                       => Has(OpMeta(bugs[i], k), metaKeyGiteaId)

----------------------------------------------------------------------------
(* Properties of the export of one bug *)

\* the creation metadata names another origin, or records a remote id with a base URL or
\* a project that is not the configured one
NotOfTarget(md) ==
    \/ Has(md, MetaKeyOrigin) /\ md[MetaKeyOrigin] # target
    \/ /\ Has(md, metaKeyGiteaId)
       /\ \/ Has(md, metaKeyGiteaBaseUrl) /\ md[metaKeyGiteaBaseUrl] # confGiteaBaseUrl
          \/ Has(md, metaKeyGiteaProject) /\ md[metaKeyGiteaProject] # confProjectID

\* the results of the running export pass that are about bug i
ResultsFor(i) == {k \in 1..Len(exporter.out) : exporter.out[k].bug = i}

\* the write requests of the running export pass that are about bug i
WritesFor(i) == {j \in (hist.writes0 + 1)..Len(writes) : writes[j].bug = i}

\* exportBug has returned for bug i in the running pass
ExportBugReturned(i) ==
    \/ exporter.i > i
    \/ exporter.i = i /\ exporter.pc \in {"bug", "done"}

\* C21: the export makes no remote write for a bug that is not of the current target
\* (another origin, or a recorded remote id with another base URL or project): the bug is
\* skipped with a 'nothing' notification, without an error, and is left as it was.
C21_NoWriteForOtherTarget ==
    hist.kind = "export" =>
        \A i \in 1..Len(hist.bugs0) :
            NotOfTarget(CreateMetadata(hist.bugs0[i])) =>
                /\ WritesFor(i) = {}
                /\ \A k \in ResultsFor(i) : exporter.out[k].result = "ExportNothing"
                /\ bugs[i] = hist.bugs0[i]
                /\ (ExportBugReturned(i) /\ HasAnyActor(bugs[i], DOMAIN exporter.identityClient))
                      => Cardinality(ResultsFor(i)) = 1

\* the pass has skipped a bug of another origin and has written for the bug after it
C21_Witness ==
    /\ hist.kind = "export"
    /\ exporter.pc = "done"
    /\ Len(hist.bugs0) = 2
    /\ Get(CreateMetadata(hist.bugs0[1]), MetaKeyOrigin) = "github"
    /\ ResultsFor(1) # {}
    /\ WritesFor(2) # {}


\* C22: a bug gets the 'nothing exported' notification only when the pass made no remote
\* write for it: a bug whose remote issue was created in the pass, or one of whose
\* operations was exported, never receives it.
C22_NothingOnlyWithoutWrite ==
    hist.kind = "export" =>
        \A i \in 1..Len(bugs) :
            WritesFor(i) # {} =>
                \A k \in ResultsFor(i) : exporter.out[k].result # "ExportNothing"


----------------------------------------------------------------------------
(* Properties of the records of an import *)

\* the first import pass over an empty store has ended without error, and the remote
\* is as the pass saw it
FirstImportDone ==
    /\ hist.kind = "import"
    /\ hist.passes = 1
    /\ hist.bugs0 = <<>>
    /\ hist.changed = {}
    /\ faults = 0
    /\ LastPassOk

\* the positions <<bug, operation>> of the store
OpPositions == UNION {{<<i, k>> : k \in 1..Len(bugs[i].ops)} : i \in 1..Len(bugs)}

\* the operations of the store made from this label event
LabelChangesOf(e) ==
    {p \in OpPositions :
        /\ bugs[p[1]].ops[p[2]].kind = "LabelChange"
        /\ Get(bugs[p[1]].ops[p[2]].meta, metaKeyGiteaId) = parseID(e.ID)
        /\ bugs[p[1]].ops[p[2]].added = (IF e.action = "add" THEN {e.label} ELSE {})
        /\ bugs[p[1]].ops[p[2]].removed = (IF e.action = "remove" THEN {e.label} ELSE {})}

\* C23: on the first import of an issue every remote label event yields exactly one
\* LabelChange operation that adds or removes the named label and carries the event's
\* remote id, whatever numeric ids the issue, its notes and its label events have.
C23_LabelEventImportedOnce ==
    FirstImportDone =>
        \A k \in 1..Len(remote.issues) : \A j \in 1..Len(remote.issues[k].events) :
            Cardinality(LabelChangesOf(remote.issues[k].events[j])) = 1


\* the operations of the store that carry a text body
TextOps == {p \in OpPositions : bugs[p[1]].ops[p[2]].kind \in {"Create", "AddComment", "EditComment"}}

\* the operations the DescriptionChanged branch of ensureNote appends: an edit of the
\* first comment tagged with the id of the note
DescriptionEdits ==
    {p \in OpPositions :
        /\ bugs[p[1]].ops[p[2]].kind = "EditComment"
        /\ bugs[p[1]].ops[p[2]].target = 1
        /\ Has(bugs[p[1]].ops[p[2]].meta, metaKeyGiteaId)}

\* C24: every text body the import stores is the output of the cleanup step, and an
\* unchanged remote description never produces an EditComment on the first comment
\* (the remote of this specification never changes the description of an issue).
C24_StoredTextIsClean ==
    /\ \A p \in TextOps : Cleanup(bugs[p[1]].ops[p[2]].msg) = bugs[p[1]].ops[p[2]].msg
    /\ DescriptionEdits = {}


----------------------------------------------------------------------------
(* Properties of the scope of the child cursors *)

\* the position in its listing of the item a child cursor stands on, 0 after a reset
CursorPos(c) == IF c.cache = <<>> THEN 0 ELSE (c.page - 2) * capacity + c.index + 1

\* a child cursor is scoped to the issue with this IID: it was reset to it (or by a
\* failed request, whose error is then the sticky one), and the page it holds is a page
\* of the listing of that issue
ScopedTo(c, iid, listing) ==
    /\ c.issue = iid \/ (c.issue = -1 /\ iterator.err # NoErr)
    /\ c.cache # <<>> =>
          /\ c.issue = iid
          /\ c.index \in 0..(Len(c.cache) - 1)
          /\ c.cache = PageOf(listing, c.page - 1, capacity)

ChildrenScoped ==
    (issueHasValue(iterator.issue) /\ ~iterObs.panicked) =>
        LET iid == issueValue(iterator.issue).IID IN
        /\ ScopedTo(iterator.note, iid, ListIssueNotesAll(iid))
        /\ ScopedTo(iterator.labelEvent, iid, ListIssueLabelEventsAll(iid))

\* a call that moves the issue cursor leaves both child cursors reset; a call that
\* moves a child cursor moves it by one item of its listing
ChildrenAdvance ==
    /\ (iterator'.issue # iterator.issue /\ issueHasValue(iterator'.issue)) =>
          /\ CursorPos(iterator'.note) = 0
          /\ CursorPos(iterator'.labelEvent) = 0
    /\ (iterator'.issue = iterator.issue /\ iterator'.note.cache # <<>>) =>
          CursorPos(iterator'.note) \in {CursorPos(iterator.note), CursorPos(iterator.note) + 1}
    /\ (iterator'.issue = iterator.issue /\ iterator'.labelEvent.cache # <<>>) =>
          CursorPos(iterator'.labelEvent) \in
              {CursorPos(iterator.labelEvent), CursorPos(iterator.labelEvent) + 1}

\* C25: the note and label event cursors are always scoped to the current issue: after
\* NextIssue moved to issue I, each value of NextNote and NextLabelEvent is the next item
\* of the listing of I, from its first page on, and nothing of the previous issue is left.
C25_ChildCursorsScoped == []ChildrenScoped /\ [][ChildrenAdvance]_vars

\* the iterator stands on the second issue, after an issue with notes, and both child
\* cursors have fetched an item of the second issue
C25_Witness ==
    /\ issueHasValue(iterator.issue)
    /\ issueValue(iterator.issue).IID = 2
    /\ ListIssueNotesAll(1) # <<>>
    /\ Len(ListIssueNotesAll(1)) # Len(ListIssueNotesAll(2))
    /\ noteHasValue(iterator.note)
    /\ labelEventHasValue(iterator.labelEvent)
    /\ ~iterObs.panicked


----------------------------------------------------------------------------
(* Totality of the classifier *)

\* C26: the classifier is total: for every note, system-generated or not and whatever
\* its body (a system body that starts with 'changed title from' and has no '** to **'
\* included), GetNoteType returns a kind and a payload without failing.
C26_ClassifierTotal == classifier # <<>> /\ classifier.called => ~classifier.result.panic


----------------------------------------------------------------------------
(* Properties of an import that follows an export *)

\* the remote issues the export passes created
ExportedIssues ==
    {writes[j].issue : j \in {j \in 1..Len(writes) :
                                writes[j].call = "createIssue" /\ writes[j].err = NoErr}}

\* the bugs of the store whose creation metadata carries this remote id
BugsOfIssue(iid) ==
    {i \in 1..Len(bugs) : Get(CreateMetadata(bugs[i]), metaKeyGiteaId) = parseID(iid)}

\* C27: an export pass followed by an import pass from the same target, the remote
\* otherwise unchanged, does not duplicate content: the import reuses the local bug of
\* each issue the export created, creates no second bug for it and appends nothing to it.
C27_ExportThenImportNoDuplicate ==
    (/\ hist.kind = "import"
     /\ hist.passes = 2
     /\ hist.prev.kind = "export"
     /\ hist.prev.ok
     /\ hist.prev.changed = {}
     /\ hist.changed = {}
     /\ LastPassOk) =>
        /\ \A iid \in ExportedIssues : Cardinality(BugsOfIssue(iid)) = 1
        /\ \A i \in 1..Len(hist.bugs0) : bugs[i] = hist.bugs0[i]


----------------------------------------------------------------------------
(* Termination of the passes *)

\* the channel of the import pass is closed: the goroutine of ImportAll has returned, or
\* it has panicked and its deferred close(gi.out) has run
ImportChannelClosed == importer.pc \in {"done", "panic"}

\* the channel of the export pass is closed: the goroutine of ExportAll has returned, or
\* it has panicked and its deferred close(out) has run
ExportChannelClosed == exporter.pc \in {"done", "panic"}

\* a running import pass ends
ImportPassEnds == (importer.pc \notin {"idle", "done"}) ~> ImportChannelClosed

\* a running export pass ends
ExportPassEnds == (exporter.pc \notin {"idle", "done"}) ~> ExportChannelClosed

=============================================================================
